---- MODULE Spec2Model ----
(***************************************************************************)
(* A model of the WarpX fluid container (WarpXFluidContainer.cpp) and of   *)
(* the HeapSort functor of VelocityCoincidenceThinning.                    *)
(*                                                                         *)
(* Two state machines share the module:                                    *)
(*   SpecSort  one call of HeapSort, one action per loop step;             *)
(*   Spec      a WarpXFluidContainer on one level of a periodic 3-D mesh,  *)
(*             one action per kernel launch / boundary fill of each method.*)
(***************************************************************************)
EXTENDS Integers, Sequences, FiniteSets, TLC

VARIABLES
    \* ---- HeapSort (VelocityCoincidenceThinning::HeapSort::operator()) ----
    index_array,    \* int index_array[]  (0-based, as a function 0..len-1 -> int)
    bin_array,      \* const int bin_array[]
    start,          \* const int start
    n,              \* const int n
    sort_i,         \* loop variable i of both for-loops
    sort_j,         \* loop variable j of both while-loops
    sort_pc,        \* position in operator()
    index_in,       \* index_array as it was on entry (history)
    bin_in,         \* bin_array as it was on entry (history)
    touched,        \* positions of index_array read or written so far (history)
    \* ---- WarpXFluidContainer, one level ----
    geom,           \* warpx.Geom(lev), getdt(lev), the BoxArray and the species constants
    locals,         \* the per-iteration locals of the kernel launched last
    N,              \* N[lev]: fluid density, nodal, NGuard guard cells
    NU,             \* NU[lev][0..2]: fluid momentum density (here NU[1..3])
    rho,            \* the charge density MultiFab DepositCharge is handed
    J,              \* jx, jy, jz: the current MultiFabs Evolve / DepositCurrent are handed
    tmp_V,          \* tmp_Vx, tmp_Vy, tmp_Vz of AdvectivePush_Muscl
    tmp_Q_minus,    \* tmp_Q_minus_x, _y, _z (4 components per entry)
    tmp_Q_plus,     \* tmp_Q_plus_x, _y, _z
    tmp_j,          \* tmp_jx_fluid, tmp_jy_fluid, tmp_jz_fluid of DepositCurrent
    pc,             \* the kernel launch / boundary fill the container is at
    todo,           \* the methods the running call still has to make, in order
    args,           \* the running call's method and arguments (fields, skip_deposition)
    calls,          \* the top-level calls made so far, in order (history)
    log,            \* begin/end events of the methods of the running call (history)
    wrote,          \* fluid fields written by the running method so far (history)
    filled,         \* fluid fields the running method has boundary-filled so far (history)
    pre,            \* N, NU, rho, J as they were when the running call began (history)
    mass0,          \* the total of N over the owned nodes after InitData (history)
    \* ---- construction of containers (constructor, ReadParameters) ----
    inputs,         \* the ParmParse table: the value given for each species prefix and key
    initialized,    \* static bool initialized of ReadParameters
    containers,     \* the containers constructed so far, in order
    queries         \* the ParmParse queries made so far, in order

sortVars == <<index_array, bin_array, start, n, sort_i, sort_j, sort_pc, index_in, bin_in, touched>>

meshVars == <<N, NU, rho, J>>

tmpVars == <<tmp_V, tmp_Q_minus, tmp_Q_plus, tmp_j, locals>>

histVars == <<calls, log, wrote, filled, pre, mass0>>

fluidVars == <<geom, meshVars, tmpVars, pc, todo, args, histVars>>

ctorVars == <<inputs, initialized, containers, queries>>

vars == <<sortVars, fluidVars, ctorVars>>

----------------------------------------------------------------------------
(* Bounds of the HeapSort inputs. *)

\* largest window length n
MaxN == 4

\* window offsets start
Starts == {0, 1}

\* momentum bin numbers
Bins == {0, 1, 2}

\* entries of index_array are particle indices into bin_array
Particles == {0, 1, 2}

\* bin_array contents: every assignment of bins to the particles
BinArrays == [Particles -> Bins]

----------------------------------------------------------------------------
(* HeapSort *)

\* a swap that loses b's entry: b = a; a = temp with temp = a
Mutant_swap(arr, a, b) == [arr EXCEPT ![b] = arr[a]]

\* swap(int &a, int &b): exchange two entries of the array
swap(arr, a, b) == [arr EXCEPT ![a] = arr[b], ![b] = arr[a]]

\* bin_array[index_array[p + start]]
KeyAt(arr, p) == bin_array[arr[p + start]]

\* C integer division (j - 1) / 2 for j >= 0 ... (-1)/2 = 0 in C, never evaluated for j = 0
Parent(j) == (j - 1) \div 2

\* the container is not part of a HeapSort run
FluidOff ==
    /\ geom = <<>> /\ N = <<>> /\ NU = <<>> /\ rho = <<>> /\ J = <<>>
    /\ tmp_V = <<>> /\ tmp_Q_minus = <<>> /\ tmp_Q_plus = <<>> /\ tmp_j = <<>> /\ locals = <<>>
    /\ pc = "off" /\ todo = <<>> /\ args = <<>> /\ calls = <<>> /\ log = <<>>
    /\ wrote = {} /\ filled = {} /\ pre = <<>> /\ mass0 = 0

\* no container is being constructed
CtorOff ==
    /\ inputs = <<>> /\ initialized = FALSE /\ containers = <<>> /\ queries = <<>>

SortInit ==
    /\ start \in Starts
    /\ n \in 0 .. MaxN
    /\ bin_array \in BinArrays
    /\ index_array \in [0 .. (start + n) -> Particles]
    /\ index_in = index_array
    /\ bin_in = bin_array
    /\ touched = {}
    /\ sort_i = 1
    /\ sort_j = 0
    /\ sort_pc = "heapify"
    /\ FluidOff
    /\ CtorOff

\* the value of i the second loop begins with (int i = n - 1)
Mutant_ExtractFrom(len) == len

\* the value of i the second loop begins with (int i = n - 1)
ExtractFrom(len) == len - 1

\* for (int i = 1; i < n; i++) { auto j = i; ...
HeapifyOuter ==
    /\ sort_pc = "heapify"
    /\ IF sort_i < n
         THEN /\ sort_j' = sort_i
              /\ sort_pc' = "sift_up"
              /\ UNCHANGED sort_i
         ELSE /\ sort_i' = ExtractFrom(n)
              /\ sort_pc' = "extract"
              /\ UNCHANGED sort_j
    /\ UNCHANGED <<index_array, bin_array, start, n, index_in, bin_in, touched, fluidVars, ctorVars>>

\* while (j > 0 && bin[idx[j+start]] > bin[idx[(j-1)/2+start]]) { swap; j = (j-1)/2; }
SiftUp ==
    /\ sort_pc = "sift_up"
    /\ touched' = touched \cup (IF sort_j > 0 THEN {sort_j + start, Parent(sort_j) + start} ELSE {})
    /\ IF sort_j > 0 /\ KeyAt(index_array, sort_j) > KeyAt(index_array, Parent(sort_j))
         THEN /\ index_array' = swap(index_array, sort_j + start, Parent(sort_j) + start)
              /\ sort_j' = Parent(sort_j)
              /\ UNCHANGED <<sort_i, sort_pc>>
         ELSE /\ sort_i' = sort_i + 1
              /\ sort_pc' = "heapify"
              /\ UNCHANGED <<index_array, sort_j>>
    /\ UNCHANGED <<bin_array, start, n, index_in, bin_in, fluidVars, ctorVars>>

\* for (int i = n - 1; i > 0; i--) { swap(idx[start], idx[i+start]); int j = 0; ...
ExtractOuter ==
    /\ sort_pc = "extract"
    /\ IF sort_i > 0
         THEN /\ index_array' = swap(index_array, start, sort_i + start)
              /\ touched' = touched \cup {start, sort_i + start}
              /\ sort_j' = 0
              /\ sort_pc' = "sift_down"
         ELSE /\ sort_pc' = "done"
              /\ UNCHANGED <<index_array, sort_j, touched>>
    /\ UNCHANGED <<bin_array, start, n, sort_i, index_in, bin_in, fluidVars, ctorVars>>

\* a sift-down step that always looks at the left child
Mutant_ChildIndex(arr, j, i) == 2 * j + 1

\* the child the sift-down step looks at: 2*j+1, or 2*j+2 when it holds the larger key
ChildIndex(arr, j, i) ==
    LET index == 2 * j + 1
    IN  IF index + 1 < i /\ KeyAt(arr, index) < KeyAt(arr, index + 1)
          THEN index + 1
          ELSE index

\* the positions one pass of the sift-down loop reads: both children when
\* index + 1 < i, then the parent and the chosen child when index < i
SiftDownReads(arr, j, i) ==
    LET index == 2 * j + 1
    IN  (IF index + 1 < i THEN {index + start, index + 1 + start} ELSE {})
          \cup (IF ChildIndex(arr, j, i) < i THEN {j + start, ChildIndex(arr, j, i) + start} ELSE {})

\* a sift-down loop that advances j only when it swaps (j = index inside the if)
Mutant_SiftDown ==
    /\ sort_pc = "sift_down"
    /\ IF sort_j < sort_i
         THEN LET index == ChildIndex(index_array, sort_j, sort_i)
              IN  /\ index_array' =
                        IF index < sort_i /\ KeyAt(index_array, sort_j) < KeyAt(index_array, index)
                          THEN swap(index_array, sort_j + start, index + start)
                          ELSE index_array
                  /\ touched' = touched \cup SiftDownReads(index_array, sort_j, sort_i)
                  /\ sort_j' = IF index_array' # index_array THEN index ELSE sort_j
                  /\ UNCHANGED <<sort_i, sort_pc>>
         ELSE /\ sort_i' = sort_i - 1
              /\ sort_pc' = "extract"
              /\ UNCHANGED <<index_array, sort_j, touched>>
    /\ UNCHANGED <<bin_array, start, n, index_in, bin_in, fluidVars, ctorVars>>

\* while (j < i) { index = ...; if (index < i && parent < child) swap; j = index; }
SiftDown ==
    /\ sort_pc = "sift_down"
    /\ IF sort_j < sort_i
         THEN LET index == ChildIndex(index_array, sort_j, sort_i)
              IN  /\ index_array' =
                        IF index < sort_i /\ KeyAt(index_array, sort_j) < KeyAt(index_array, index)
                          THEN swap(index_array, sort_j + start, index + start)
                          ELSE index_array
                  /\ touched' = touched \cup SiftDownReads(index_array, sort_j, sort_i)
                  /\ sort_j' = index
                  /\ UNCHANGED <<sort_i, sort_pc>>
         ELSE /\ sort_i' = sort_i - 1
              /\ sort_pc' = "extract"
              /\ UNCHANGED <<index_array, sort_j, touched>>
    /\ UNCHANGED <<bin_array, start, n, index_in, bin_in, fluidVars, ctorVars>>

SortNext == HeapifyOuter \/ SiftUp \/ ExtractOuter \/ SiftDown

SpecSort == SortInit /\ [][SortNext]_vars

\* HeapSort runs on one thread that executes its statements one after the
\* other: a step that can be taken is taken
SpecSortFair == SortInit /\ [][SortNext]_vars /\ WF_vars(SortNext)


----------------------------------------------------------------------------
(* amrex::Real arithmetic.  A Real is a binary floating-point number with  *)
(* a significand of Precision bits, held as an integer count of units of   *)
(* 1/ONE, the smallest spacing of the format.  Every operation (sum,       *)
(* difference, product, quotient, square root) rounds its result to the    *)
(* nearest Real: below 2^Precision units the Reals are one unit apart,     *)
(* from there on their spacing doubles with every doubling of the          *)
(* magnitude, so that large sums round as they do in the code.  The format *)
(* is far coarser than float or double: the model settles which values a   *)
(* kernel combines, in which order, and where it stores them, and that     *)
(* rounded operations need not give the unrounded result; it does not      *)
(* reproduce the digits of a run.  The runs take dt / dx = 0.3, which is   *)
(* no power of two.                                                        *)

\* the Real 1.0
ONE == 1000

Abs(x) == IF x < 0 THEN -x ELSE x

Sgn(x) == IF x < 0 THEN -1 ELSE IF x > 0 THEN 1 ELSE 0

\* num / den rounded to the nearest integer, ties away from zero (den # 0)
RoundDiv(num, den) ==
    Sgn(num) * Sgn(den) * ((2 * Abs(num) + Abs(den)) \div (2 * Abs(den)))

\* the number of bits of the significand of a Real
Precision == 12

RECURSIVE Pow2(_)
Pow2(k) == IF k = 0 THEN 1 ELSE 2 * Pow2(k - 1)

\* the magnitude, in units, from which on the Reals are more than one unit apart
Threshold == Pow2(Precision)

\* the spacing of the Reals at magnitude ax: the least power of two q, from
\* q on, with ax < 2^Precision * q
RECURSIVE Spacing(_, _)
Spacing(ax, q) == IF ax < Threshold * q THEN q ELSE Spacing(ax, 2 * q)

\* num / den rounded to the nearest Real: to the nearest multiple of the
\* spacing of the Reals at its magnitude
RoundTo(num, den) ==
    LET ax == Abs(num) \div Abs(den)
        q  == IF ax < Threshold THEN 1 ELSE Spacing(ax, 1)
    IN  q * RoundDiv(num, den * q)

\* the Real nearest to x units
Fl(x) == IF Abs(x) < Threshold THEN x ELSE RoundTo(x, 1)

\* a + b
RAdd(a, b) == Fl(a + b)

\* a - b
RSub(a, b) == Fl(a - b)

\* a * b
RMul(a, b) == RoundTo(a * b, ONE)

\* a / b
RDiv(a, b) == RoundTo(a * ONE, b)

\* result, once the locals listed have been computed in that order: a kernel
\* body computes its locals statement by statement, each from the ones before
After(locals_computed, result) == IF locals_computed = locals_computed THEN result ELSE result

\* largest r in lo..hi with r*r <= x (lo*lo <= x)
RECURSIVE ISqrtIn(_, _, _)
ISqrtIn(x, lo, hi) ==
    IF lo >= hi THEN lo
    ELSE LET mid == (lo + hi + 1) \div 2
         IN  IF mid * mid <= x THEN ISqrtIn(x, mid, hi) ELSE ISqrtIn(x, lo, mid - 1)

\* std::sqrt(a), a >= 0
RSqrt(a) ==
    LET x == a * ONE
        r == ISqrtIn(x, 0, 46340)
    IN  Fl(IF x - r * r > r THEN r + 1 ELSE r)

\* std::max, std::abs
Max(a, b) == IF a >= b THEN a ELSE b

\* PhysConst::c, in units where c = 1
clight == ONE

----------------------------------------------------------------------------
(* Mesh: one level of a periodic 3-D domain, decomposed along x.           *)

\* amrex::IntVect nguards = {2, 2, 2}
NGuard == 2

\* number of cells of the domain along x
MaxCells == 3

\* largest number of top-level calls made on the container after InitData
MaxCalls == 2

Axes == {1, 2, 3}

\* IndexType: 1 = node-centered, 0 = cell-centered, per axis
TheNodeVector == <<1, 1, 1>>

\* number of cells of the domain per axis: ncx along x, NGuard along y and z
\* (the smallest periodic domain whose guard cells are images of valid nodes)
DomainCells(ncx) == <<ncx, NGuard, NGuard>>

\* the decompositions of the cells 0..ncx-1 along x: one box, or two boxes
\* that meet at cell ncx \div 2
BoxArrays(ncx) ==
    {<< <<0, ncx - 1>> >>, << <<0, (ncx \div 2) - 1>>, <<ncx \div 2, ncx - 1>> >>}

Patches == DOMAIN geom.ba

\* amrex::convert(ba[p], typ) grown by ng: the index box of patch p of BoxArray ba
BoxOf(ba, p, typ, ng) ==
    LET nc == DomainCells(geom.ncx)
    IN  [lo |-> <<ba[p][1] - ng, 0 - ng, 0 - ng>>,
         hi |-> <<ba[p][2] + typ[1] + ng, nc[2] - 1 + typ[2] + ng, nc[3] - 1 + typ[3] + ng>>]

\* the same for the BoxArray of the fluid MultiFabs
PatchBox(p, typ, ng) == BoxOf(geom.ba, p, typ, ng)

\* Box::contains(i, j, k)
Contains(b, idx) ==
    /\ b.lo[1] <= idx[1] /\ idx[1] <= b.hi[1]
    /\ b.lo[2] <= idx[2] /\ idx[2] <= b.hi[2]
    /\ b.lo[3] <= idx[3] /\ idx[3] <= b.hi[3]

\* the (i, j, k) a ParallelFor over the box visits
Points(b) == (b.lo[1] .. b.hi[1]) \X (b.lo[2] .. b.hi[2]) \X (b.lo[3] .. b.hi[3])

\* mfi.validbox() / mfi.tilebox(nodal) of the fluid MultiFabs
ValidBox(p) == PatchBox(p, TheNodeVector, 0)

\* the allocated box of the fluid MultiFabs (nguards guard cells)
FabBox(p) == PatchBox(p, TheNodeVector, NGuard)

\* AllocInitMultiFab(..., 0.0_rt): a nodal MultiFab with nguards guard cells, all zero
AllocateLevelMFs == [p \in Patches |-> [idx \in Points(FabBox(p)) |-> 0]]

Shift(idx, axis, d) == [idx EXCEPT ![axis] = idx[axis] + d]

----------------------------------------------------------------------------
(* Collaborators of the container: the injector profiles and the mesh's    *)
(* boundary fill.                                                          *)

Profiles == {"rest", "shear"}

\* a periodic square wave of the position along one axis: +1, -1, 0, 0, ...
\* per cell, with period the domain length len
Wave(x, len) ==
    LET xm == x % len
    IN  IF xm < geom.dx THEN 1 ELSE IF xm < 2 * geom.dx THEN -1 ELSE 0

\* inj_rho->getDensity(x, y, z)
getDensity(x, y, z) == ONE

\* inj_mom->getBulkMomentum(x, y, z), in units of c
getBulkMomentum(x, y, z) ==
    LET nc == DomainCells(geom.ncx)
    IN  IF geom.profile = "rest" THEN <<0, 0, 0>>
        ELSE << Wave(x, nc[1] * geom.dx) * (ONE \div 4),
                Wave(y, nc[2] * geom.dx) * (ONE \div 8),
                ONE \div 10 >>

\* the valid node a guard node (or a valid node) is the periodic image of:
\* the node with indices in 0..ncells-1 of the patch whose cells hold it
PeriodicSource(idx) ==
    LET nc == DomainCells(geom.ncx)
        w  == <<idx[1] % nc[1], idx[2] % nc[2], idx[3] % nc[3]>>
        q  == CHOOSE r \in Patches : geom.ba[r][1] <= w[1] /\ w[1] <= geom.ba[r][2]
    IN  <<q, w>>

\* FillBoundary(mf, mf.nGrowVect(), ..., period) of a nodal MultiFab: every
\* guard node receives the value of the valid node it is the image of
FillBoundary(mf) ==
    [p \in Patches |->
        [idx \in Points(FabBox(p)) |->
            IF Contains(ValidBox(p), idx) THEN mf[p][idx]
            ELSE LET src == PeriodicSource(idx) IN mf[src[1]][src[2]]]]

----------------------------------------------------------------------------
(* Kernel launches.  A MultiFab is a function patch -> (index -> value).   *)

\* amrex::ParallelFor(box, kernel) over every patch of mf, for a kernel that
\* assigns Value(p, idx) to mf(i, j, k): entries outside the box keep their value
ParallelFor(mf, Bx(_), Value(_, _)) ==
    [p \in DOMAIN mf |->
        [idx \in DOMAIN mf[p] |->
            IF Contains(Bx(p), idx) THEN Value(p, idx) ELSE mf[p][idx]]]

----------------------------------------------------------------------------
(* WarpXFluidContainer::InitData *)

\* an injector kernel that takes the position of node i+1 for node i
Mutant_InitDataCell(idx) ==
    LET x == RAdd(geom.problo[1], Fl((idx[1] + 1) * geom.dx))
        y == RAdd(geom.problo[2], Fl(idx[2] * geom.dx))
        z == RAdd(geom.problo[3], Fl(idx[3] * geom.dx))
    IN  [nn |-> getDensity(x, y, z), u |-> getBulkMomentum(x, y, z)]

\* the locals n, u of the injector kernel at node (i, j, k)
InitDataCell(idx) ==
    LET x == RAdd(geom.problo[1], Fl(idx[1] * geom.dx))
        y == RAdd(geom.problo[2], Fl(idx[2] * geom.dx))
        z == RAdd(geom.problo[3], Fl(idx[3] * geom.dx))
    IN  [nn |-> getDensity(x, y, z), u |-> getBulkMomentum(x, y, z)]

----------------------------------------------------------------------------
(* Field interpolation (ablastr::coarsen::sample::Interp) and the           *)
(* Higuera-Cary momentum update, collaborators of GatherAndPush.            *)

\* the staggering of E, B and j on the simulation mesh
FieldType(name) ==
    IF geom.grid = "nodal" THEN TheNodeVector
    ELSE CASE name = "Ex" -> <<0, 1, 1>> [] name = "Ey" -> <<1, 0, 1>> [] name = "Ez" -> <<1, 1, 0>>
           [] name = "Bx" -> <<1, 0, 0>> [] name = "By" -> <<0, 1, 0>> [] name = "Bz" -> <<0, 0, 1>>
           [] name = "jx" -> <<0, 1, 1>> [] name = "jy" -> <<1, 0, 1>> [] name = "jz" -> <<1, 1, 0>>

\* the field sets Evolve is called with: uniform E and B
FieldSets == {"zero", "EB"}

\* Ex_arr(i, j, k) ... Bz_arr(i, j, k)
FieldArr(fields, name, idx) ==
    IF fields = "zero" THEN 0
    ELSE CASE name = "Ex" -> ONE \div 2 [] name = "Ey" -> 0 [] name = "Ez" -> -(ONE \div 4)
           [] name = "Bx" -> 0 [] name = "By" -> ONE \div 5 [] name = "Bz" -> ONE \div 2

\* Here, we do not perform any coarsening.
coarsening_ratio == <<1, 1, 1>>

\* Interp(arr_src, sf, sc, cr, i, j, k, comp): the average of the np source
\* points around destination index ic, np and the first point from the staggerings
Interp(Arr(_), sf, sc, cr, ic) ==
    LET np == [l \in Axes |-> IF cr[l] = 1 THEN 1 + Abs(sf[l] - sc[l]) ELSE 2 - sf[l]]
        idx_min == [l \in Axes |->
                      IF cr[l] = 1 THEN ic[l] - sc[l] * (1 - sf[l])
                      ELSE ic[l] * cr[l] + (cr[l] \div 2) * (1 - sc[l]) - (1 - sf[l])]
        wx == RDiv(ONE, np[1] * ONE)
        wy == RDiv(ONE, np[2] * ONE)
        wz == RDiv(ONE, np[3] * ONE)
        w  == RMul(RMul(wx, wy), wz)
        Term(iref, jref, kref) ==
            RMul(w, Arr(<<idx_min[1] + iref, idx_min[2] + jref, idx_min[3] + kref>>))
        SumI(jref, kref) == IF np[1] = 1 THEN Term(0, jref, kref)
                            ELSE RAdd(Term(0, jref, kref), Term(1, jref, kref))
        SumJ(kref) == IF np[2] = 1 THEN SumI(0, kref) ELSE RAdd(SumI(0, kref), SumI(1, kref))
    IN  IF np[3] = 1 THEN SumJ(0) ELSE RAdd(SumJ(0), SumJ(1))

\* UpdateMomentumHigueraCary from the Lorentz factor on: tau = gamma*beta,
\* ss = 1/(1 + tau^2), umt = um.tau, u_plus = ss*(um + umt*tau + um x tau)
\* and the new momentum u_plus + qmt*E + u_plus x tau
HigueraCaryRotate(umx, umy, umz, betax, betay, betaz, gamma, E, qmt) ==
    LET tx == RMul(gamma, betax)
        ty == RMul(gamma, betay)
        tz == RMul(gamma, betaz)
        ss == RDiv(ONE, RAdd(ONE, RAdd(RAdd(RMul(tx, tx), RMul(ty, ty)), RMul(tz, tz))))
        umt == RAdd(RAdd(RMul(umx, tx), RMul(umy, ty)), RMul(umz, tz))
        upx == RMul(ss, RSub(RAdd(RAdd(umx, RMul(umt, tx)), RMul(umy, tz)), RMul(umz, ty)))
        upy == RMul(ss, RSub(RAdd(RAdd(umy, RMul(umt, ty)), RMul(umz, tx)), RMul(umx, tz)))
        upz == RMul(ss, RSub(RAdd(RAdd(umz, RMul(umt, tz)), RMul(umx, ty)), RMul(umy, tx)))
    IN  After(<<tx, ty, tz, ss, umt, upx, upy, upz>>,
              << RSub(RAdd(RAdd(upx, RMul(qmt, E[1])), RMul(upy, tz)), RMul(upz, ty)),
                 RSub(RAdd(RAdd(upy, RMul(qmt, E[2])), RMul(upz, tx)), RMul(upx, tz)),
                 RSub(RAdd(RAdd(upz, RMul(qmt, E[3])), RMul(upx, ty)), RMul(upy, tx)) >>)

\* UpdateMomentumHigueraCary from u_minus = um and the scaled field beta on:
\* gamma0 = 1 + um^2/c^2, sigma = gamma0 - beta^2, ust = um.beta/c^2 and
\* gamma = 1/sqrt(0.5*(sigma + sqrt(sigma^2 + 4*(beta^2 + ust^2))))
HigueraCaryGamma(umx, umy, umz, betax, betay, betaz, invclsq, E, qmt) ==
    LET gamma0 == RAdd(ONE, RMul(RAdd(RAdd(RMul(umx, umx), RMul(umy, umy)), RMul(umz, umz)), invclsq))
        betam == RAdd(RAdd(RMul(betax, betax), RMul(betay, betay)), RMul(betaz, betaz))
        sigma == RSub(gamma0, betam)
        ust == RMul(RAdd(RAdd(RMul(umx, betax), RMul(umy, betay)), RMul(umz, betaz)), invclsq)
        gamma == RDiv(ONE, RSqrt(RMul(ONE \div 2, RAdd(sigma, RSqrt(RAdd(RMul(sigma, sigma), RMul(4 * ONE, RAdd(betam, RMul(ust, ust)))))))))
    IN  After(<<gamma0, betam, sigma, ust, gamma>>,
              HigueraCaryRotate(umx, umy, umz, betax, betay, betaz, gamma, E, qmt))

\* UpdateMomentumHigueraCary(ux, uy, uz, Ex, Ey, Ez, Bx, By, Bz, q, m, dt):
\* qmt = 0.5*q*dt/m, u_minus = u + qmt*E, beta = qmt*B, then the steps above
UpdateMomentumHigueraCary(u, E, B, q, m, dt) ==
    LET qmt == RDiv(RMul(RMul(ONE \div 2, q), dt), m)
        invclsq == RDiv(ONE, RMul(clight, clight))
        umx == RAdd(u[1], RMul(qmt, E[1]))
        umy == RAdd(u[2], RMul(qmt, E[2]))
        umz == RAdd(u[3], RMul(qmt, E[3]))
        betax == RMul(qmt, B[1])
        betay == RMul(qmt, B[2])
        betaz == RMul(qmt, B[3])
    IN  After(<<qmt, invclsq, umx, umy, umz, betax, betay, betaz>>,
              HigueraCaryGamma(umx, umy, umz, betax, betay, betaz, invclsq, E, qmt))

----------------------------------------------------------------------------
(* WarpXFluidContainer::GatherAndPush *)

\* the push kernel's iteration (i, j, k) on patch p of the fluid MultiFabs
\* Nmf, NUmf in the fields E, B: the momentum per particle after the push
GatherAndPushCellOf(Nmf, NUmf, fields, p, idx) ==
    LET Nodal_type == TheNodeVector
        Gather(name) == Interp(LAMBDA src : FieldArr(fields, name, src),
                               FieldType(name), Nodal_type, coarsening_ratio, idx)
        E == <<Gather("Ex"), Gather("Ey"), Gather("Ez")>>
        B == <<Gather("Bx"), Gather("By"), Gather("Bz")>>
        tmp_U == << RDiv(NUmf[1][p][idx], Nmf[p][idx]),
                    RDiv(NUmf[2][p][idx], Nmf[p][idx]),
                    RDiv(NUmf[3][p][idx], Nmf[p][idx]) >>
    IN  UpdateMomentumHigueraCary(tmp_U, E, B, geom.q, geom.m, geom.dt)

\* the locals tmp_Ux, tmp_Uy, tmp_Uz of the push kernel at node (i, j, k),
\* after UpdateMomentumHigueraCary
GatherAndPushCell(p, idx) == GatherAndPushCellOf(N, NU, args.fields, p, idx)

----------------------------------------------------------------------------
(* MusclHancockUtils.H: the limiter and the numerical flux.                *)

\* ave(a, b): van Leer's harmonic average of the two one-sided differences,
\* zero when they differ in sign or one of them is zero
ave(da, db) ==
    IF da * db > 0 THEN RDiv(RMul(2 * ONE, RMul(da, db)), RAdd(da, db)) ELSE 0

\* flux(Um, Up, Vm, Vp): the two-point flux with c = max(|Vm|, |Vp|)
flux(Um, Up, Vm, Vp) ==
    LET c == Max(Abs(Vm), Abs(Vp))
    IN  RSub(RMul(ONE \div 2, RAdd(RMul(Vm, Um), RMul(Vp, Up))), RMul(RMul(ONE \div 2, c), RSub(Up, Um)))

----------------------------------------------------------------------------
(* WarpXFluidContainer::AdvectivePush_Muscl *)

\* arr(i + di, j + dj, k + dk)
At(arr, idx, di, dj, dk) == arr[<<idx[1] + di, idx[2] + dj, idx[3] + dk>>]

\* amrex::convert(box, tmp_Q_minus_{x,y,z}.ixType()): cell-centered along the axis
FaceType(axis) == [l \in Axes |-> IF l = axis THEN 0 ELSE 1]

\* a reconstruction on the tile box itself
Mutant_ReconBox(p) == PatchBox(p, TheNodeVector, 0)

\* mfi.growntilebox(1): the box the reconstruction kernel runs on
ReconBox(p) == PatchBox(p, TheNodeVector, 1)

\* box_x, box_y, box_z: the grown valid box converted to the face type
FaceBox(p, axis) == PatchBox(p, FaceType(axis), 1)

\* the iteration (i, j, k) of the reconstruction kernel from the Jacobian
\* elements on, with the velocities, their powers, the Lorentz factor and
\* a = c^2 * gamma^3 the iteration computed first (vel)
ReconFromVelocities(Nmf, NUmf, p, idx, vel) ==
    LET M(xx, yy) == RMul(xx, yy)
        D(xx, yy) == RDiv(xx, yy)
        cx_half == M(ONE \div 2, D(geom.dt, geom.dx))
        cy_half == M(ONE \div 2, D(geom.dt, geom.dx))
        cz_half == M(ONE \div 2, D(geom.dt, geom.dx))
        Ux == vel.Ux
        Uy == vel.Uy
        Uz == vel.Uz
        Uz_sq == vel.Uz_sq
        Uy_sq == vel.Uy_sq
        Ux_sq == vel.Ux_sq
        Uz_cubed == vel.Uz_cubed
        Uy_cubed == vel.Uy_cubed
        Ux_cubed == vel.Ux_cubed
        c_sq == vel.c_sq
        gamma == vel.gamma
        gamma_cubed == vel.gamma_cubed
        a == vel.a
        \* Compute the Flux-Jacobian Elements in x, y, z
        A00x == D(RAdd(RAdd(M(Ux, Uz_sq), M(Ux, Uy_sq)), Ux_cubed), a)
        A01x == D(RAdd(RAdd(c_sq, Uz_sq), Uy_sq), a)
        A02x == D((-M(Ux, Uy)), a)
        A03x == D((-M(Ux, Uz)), a)
        A10x == D((-Ux_sq), gamma_cubed)
        A11x == D(RAdd(RAdd(RAdd(M(M((2 * ONE), Ux), c_sq), M(M((2 * ONE), Ux), Uz_sq)), M(M((2 * ONE), Ux), Uy_sq)), Ux_cubed), a)
        A12x == D((-M(Ux_sq, Uy)), a)
        A13x == D((-M(Ux_sq, Uz)), a)
        A20x == D((-M(Ux, Uy)), gamma_cubed)
        A21x == D(RAdd(RAdd(M(Uy, c_sq), M(Uy, Uz_sq)), Uy_cubed), a)
        A22x == D(RAdd(RAdd(M(Ux, c_sq), M(Ux, Uz_sq)), Ux_cubed), a)
        A23x == D((-M(M(Ux, Uy), Uz)), a)
        A30x == D((-M(Ux, Uz)), gamma_cubed)
        A31x == D(RAdd(RAdd(M(Uz, c_sq), Uz_cubed), M(Uy_sq, Uz)), a)
        A32x == D((-M(M(Ux, Uy), Uz)), a)
        A33x == D(RAdd(RAdd(M(Ux, c_sq), M(Ux, Uy_sq)), Ux_cubed), a)
        A00y == D(RAdd(RAdd(M(Uy, Uz_sq), Uy_cubed), M(Ux_sq, Uy)), a)
        A01y == D((-M(Ux, Uy)), a)
        A02y == D(RAdd(RAdd(c_sq, Uz_sq), Ux_sq), a)
        A03y == D((-M(Uy, Uz)), a)
        A10y == D((-M(Ux, Uy)), gamma_cubed)
        A11y == D(RAdd(RAdd(M(Uy, c_sq), M(Uy, Uz_sq)), Uy_cubed), a)
        A12y == D(RAdd(RAdd(M(Ux, c_sq), M(Ux, Uz_sq)), Ux_cubed), a)
        A13y == D((-M(M(Ux, Uy), Uz)), a)
        A20y == D((-Uy_sq), gamma_cubed)
        A21y == D((-M(Ux, Uy_sq)), a)
        A22y == D(RAdd(RAdd(RAdd(M(M((2 * ONE), Uy), c_sq), M(M((2 * ONE), Uy), Uz_sq)), Uy_cubed), M(M((2 * ONE), Ux_sq), Uy)), a)
        A23y == D((-M(Uy_sq, Uz)), a)
        A30y == D((-M(Uy, Uz)), gamma_cubed)
        A31y == D((-M(M(Ux, Uy), Uz)), a)
        A32y == D(RAdd(RAdd(M(Uz, c_sq), Uz_cubed), M(Ux_sq, Uz)), a)
        A33y == D(RAdd(RAdd(M(Uy, c_sq), Uy_cubed), M(Ux_sq, Uy)), a)
        A00z == D(RAdd(Uz_cubed, M(RAdd(Uy_sq, Ux_sq), Uz)), a)
        A01z == D((-M(Ux, Uz)), a)
        A02z == D((-M(Uy, Uz)), a)
        A03z == D(RAdd(RAdd(c_sq, Uy_sq), Ux_sq), a)
        A10z == D((-M(Ux, Uz)), gamma_cubed)
        A11z == D(RAdd(RAdd(M(Uz, c_sq), Uz_cubed), M(Uy_sq, Uz)), a)
        A12z == D((-M(M(Ux, Uy), Uz)), a)
        A13z == D(RAdd(RAdd(M(Ux, c_sq), M(Ux, Uy_sq)), Ux_cubed), a)
        A20z == D((-M(Uy, Uz)), gamma_cubed)
        A21z == D((-M(M(Ux, Uy), Uz)), a)
        A22z == D(RAdd(RAdd(M(Uz, c_sq), Uz_cubed), M(Ux_sq, Uz)), a)
        A23z == D(RAdd(RAdd(M(Uy, c_sq), Uy_cubed), M(Ux_sq, Uy)), a)
        A30z == D((-Uz_sq), gamma_cubed)
        A31z == D((-M(Ux, Uz_sq)), a)
        A32z == D((-M(Uy, Uz_sq)), a)
        A33z == D(RAdd(RAdd(M(M((2 * ONE), Uz), c_sq), Uz_cubed), M(RAdd(M((2 * ONE), Uy_sq), M((2 * ONE), Ux_sq)), Uz)), a)
        \* Compute the cell slopes
        dQ0x == ave(RSub(At(Nmf[p], idx, 0, 0, 0), At(Nmf[p], idx, -1, 0, 0)), RSub(At(Nmf[p], idx, 1, 0, 0), At(Nmf[p], idx, 0, 0, 0)))
        dQ1x == ave(RSub(At(NUmf[1][p], idx, 0, 0, 0), At(NUmf[1][p], idx, -1, 0, 0)), RSub(At(NUmf[1][p], idx, 1, 0, 0), At(NUmf[1][p], idx, 0, 0, 0)))
        dQ2x == ave(RSub(At(NUmf[2][p], idx, 0, 0, 0), At(NUmf[2][p], idx, -1, 0, 0)), RSub(At(NUmf[2][p], idx, 1, 0, 0), At(NUmf[2][p], idx, 0, 0, 0)))
        dQ3x == ave(RSub(At(NUmf[3][p], idx, 0, 0, 0), At(NUmf[3][p], idx, -1, 0, 0)), RSub(At(NUmf[3][p], idx, 1, 0, 0), At(NUmf[3][p], idx, 0, 0, 0)))
        dQ0y == ave(RSub(At(Nmf[p], idx, 0, 0, 0), At(Nmf[p], idx, 0, -1, 0)), RSub(At(Nmf[p], idx, 0, 1, 0), At(Nmf[p], idx, 0, 0, 0)))
        dQ1y == ave(RSub(At(NUmf[1][p], idx, 0, 0, 0), At(NUmf[1][p], idx, 0, -1, 0)), RSub(At(NUmf[1][p], idx, 0, 1, 0), At(NUmf[1][p], idx, 0, 0, 0)))
        dQ2y == ave(RSub(At(NUmf[2][p], idx, 0, 0, 0), At(NUmf[2][p], idx, 0, -1, 0)), RSub(At(NUmf[2][p], idx, 0, 1, 0), At(NUmf[2][p], idx, 0, 0, 0)))
        dQ3y == ave(RSub(At(NUmf[3][p], idx, 0, 0, 0), At(NUmf[3][p], idx, 0, -1, 0)), RSub(At(NUmf[3][p], idx, 0, 1, 0), At(NUmf[3][p], idx, 0, 0, 0)))
        dQ0z == ave(RSub(At(Nmf[p], idx, 0, 0, 0), At(Nmf[p], idx, 0, 0, -1)), RSub(At(Nmf[p], idx, 0, 0, 1), At(Nmf[p], idx, 0, 0, 0)))
        dQ1z == ave(RSub(At(NUmf[1][p], idx, 0, 0, 0), At(NUmf[1][p], idx, 0, 0, -1)), RSub(At(NUmf[1][p], idx, 0, 0, 1), At(NUmf[1][p], idx, 0, 0, 0)))
        dQ2z == ave(RSub(At(NUmf[2][p], idx, 0, 0, 0), At(NUmf[2][p], idx, 0, 0, -1)), RSub(At(NUmf[2][p], idx, 0, 0, 1), At(NUmf[2][p], idx, 0, 0, 0)))
        dQ3z == ave(RSub(At(NUmf[3][p], idx, 0, 0, 0), At(NUmf[3][p], idx, 0, 0, -1)), RSub(At(NUmf[3][p], idx, 0, 0, 1), At(NUmf[3][p], idx, 0, 0, 0)))
        \* Compute Q ([ N, NU]) at the halfsteps (Q_tilde) using the slopes (dQ)
        AdQ0x == RAdd(RAdd(RAdd(M(A00x, dQ0x), M(A01x, dQ1x)), M(A02x, dQ2x)), M(A03x, dQ3x))
        AdQ1x == RAdd(RAdd(RAdd(M(A10x, dQ0x), M(A11x, dQ1x)), M(A12x, dQ2x)), M(A13x, dQ3x))
        AdQ2x == RAdd(RAdd(RAdd(M(A20x, dQ0x), M(A21x, dQ1x)), M(A22x, dQ2x)), M(A23x, dQ3x))
        AdQ3x == RAdd(RAdd(RAdd(M(A30x, dQ0x), M(A31x, dQ1x)), M(A32x, dQ2x)), M(A33x, dQ3x))
        AdQ0y == RAdd(RAdd(RAdd(M(A00y, dQ0y), M(A01y, dQ1y)), M(A02y, dQ2y)), M(A03y, dQ3y))
        AdQ1y == RAdd(RAdd(RAdd(M(A10y, dQ0y), M(A11y, dQ1y)), M(A12y, dQ2y)), M(A13y, dQ3y))
        AdQ2y == RAdd(RAdd(RAdd(M(A20y, dQ0y), M(A21y, dQ1y)), M(A22y, dQ2y)), M(A23y, dQ3y))
        AdQ3y == RAdd(RAdd(RAdd(M(A30y, dQ0y), M(A31y, dQ1y)), M(A32y, dQ2y)), M(A33y, dQ3y))
        AdQ0z == RAdd(RAdd(RAdd(M(A00z, dQ0z), M(A01z, dQ1z)), M(A02z, dQ2z)), M(A03z, dQ3z))
        AdQ1z == RAdd(RAdd(RAdd(M(A10z, dQ0z), M(A11z, dQ1z)), M(A12z, dQ2z)), M(A13z, dQ3z))
        AdQ2z == RAdd(RAdd(RAdd(M(A20z, dQ0z), M(A21z, dQ1z)), M(A22z, dQ2z)), M(A23z, dQ3z))
        AdQ3z == RAdd(RAdd(RAdd(M(A30z, dQ0z), M(A31z, dQ1z)), M(A32z, dQ2z)), M(A33z, dQ3z))
        Q_tilde0 == RSub(RSub(RSub(At(Nmf[p], idx, 0, 0, 0), M(cx_half, AdQ0x)), M(cy_half, AdQ0y)), M(cz_half, AdQ0z))
        Q_tilde1 == RSub(RSub(RSub(At(NUmf[1][p], idx, 0, 0, 0), M(cx_half, AdQ1x)), M(cy_half, AdQ1y)), M(cz_half, AdQ1z))
        Q_tilde2 == RSub(RSub(RSub(At(NUmf[2][p], idx, 0, 0, 0), M(cx_half, AdQ2x)), M(cy_half, AdQ2y)), M(cz_half, AdQ2z))
        Q_tilde3 == RSub(RSub(RSub(At(NUmf[3][p], idx, 0, 0, 0), M(cx_half, AdQ3x)), M(cy_half, AdQ3y)), M(cz_half, AdQ3z))
    IN  After(<<cx_half, cy_half, cz_half, Ux, Uy, Uz, Uz_sq, Uy_sq, Ux_sq,
                Uz_cubed, Uy_cubed, Ux_cubed, c_sq, gamma, gamma_cubed, a, A00x,
                A01x, A02x, A03x, A10x, A11x, A12x, A13x, A20x, A21x, A22x, A23x,
                A30x, A31x, A32x, A33x, A00y, A01y, A02y, A03y, A10y, A11y, A12y,
                A13y, A20y, A21y, A22y, A23y, A30y, A31y, A32y, A33y, A00z, A01z,
                A02z, A03z, A10z, A11z, A12z, A13z, A20z, A21z, A22z, A23z, A30z,
                A31z, A32z, A33z, dQ0x, dQ1x, dQ2x, dQ3x, dQ0y, dQ1y, dQ2y, dQ3y,
                dQ0z, dQ1z, dQ2z, dQ3z, AdQ0x, AdQ1x, AdQ2x, AdQ3x, AdQ0y, AdQ1y,
                AdQ2y, AdQ3y, AdQ0z, AdQ1z, AdQ2z, AdQ3z, Q_tilde0, Q_tilde1,
                Q_tilde2, Q_tilde3>>,
              [V |-> <<D(Ux, gamma), D(Uy, gamma), D(Uz, gamma)>>,
               Q_tilde |-> <<Q_tilde0, Q_tilde1, Q_tilde2, Q_tilde3>>,
               dQ |-> << <<dQ0x, dQ1x, dQ2x, dQ3x>>,
                         <<dQ0y, dQ1y, dQ2y, dQ3y>>,
                         <<dQ0z, dQ1z, dQ2z, dQ3z>> >>])

\* the iteration (i, j, k) of the reconstruction kernel on patch p of the
\* fluid MultiFabs Nmf, NUmf: the velocities and the Lorentz factor, then
\* the Jacobian elements, the slopes and the half-step values
ReconCellOf(Nmf, NUmf, p, idx) ==
    LET M(xx, yy) == RMul(xx, yy)
        D(xx, yy) == RDiv(xx, yy)
        Ux == D(At(NUmf[1][p], idx, 0, 0, 0), At(Nmf[p], idx, 0, 0, 0))
        Uy == D(At(NUmf[2][p], idx, 0, 0, 0), At(Nmf[p], idx, 0, 0, 0))
        Uz == D(At(NUmf[3][p], idx, 0, 0, 0), At(Nmf[p], idx, 0, 0, 0))
        Uz_sq == M(Uz, Uz)
        Uy_sq == M(Uy, Uy)
        Ux_sq == M(Ux, Ux)
        Uz_cubed == M(Uz_sq, Uz)
        Uy_cubed == M(Uy_sq, Uy)
        Ux_cubed == M(Ux_sq, Ux)
        c_sq == M(clight, clight)
        gamma == RSqrt(RAdd(ONE, D(RAdd(RAdd(Ux_sq, Uy_sq), Uz_sq), c_sq)))
        gamma_cubed == M(M(gamma, gamma), gamma)
        a == M(c_sq, gamma_cubed)
    IN  ReconFromVelocities(Nmf, NUmf, p, idx,
                            [Ux |-> Ux,
                             Uy |-> Uy,
                             Uz |-> Uz,
                             Uz_sq |-> Uz_sq,
                             Uy_sq |-> Uy_sq,
                             Ux_sq |-> Ux_sq,
                             Uz_cubed |-> Uz_cubed,
                             Uy_cubed |-> Uy_cubed,
                             Ux_cubed |-> Ux_cubed,
                             c_sq |-> c_sq,
                             gamma |-> gamma,
                             gamma_cubed |-> gamma_cubed,
                             a |-> a])

\* the locals of one iteration (i, j, k) of the reconstruction kernel: the
\* velocities, the half-step values Q_tilde and the limited slopes dQ per axis
ReconCell(p, idx) == ReconCellOf(N, NU, p, idx)

\* Q_minus(i, j, k, 0..3) = Q_tilde + dQ/2.0, as the iteration at idx writes it
EdgeMinus(cell, axis) ==
    [comp \in 1 .. 4 |-> RAdd(cell.Q_tilde[comp], RDiv(cell.dQ[axis][comp], 2 * ONE))]

\* Q_plus(i-1, j, k, 0..3) = Q_tilde - dQ/2.0, as the iteration at idx writes it
EdgePlus(cell, axis) ==
    [comp \in 1 .. 4 |-> RSub(cell.Q_tilde[comp], RDiv(cell.dQ[axis][comp], 2 * ONE))]

\* tmp_Q_minus_{axis} (freshly allocated on the face box, 1 guard cell) after the
\* reconstruction kernel: the iteration at idx writes entry idx when the face
\* box contains it; an entry no iteration wrote holds no value
ReconQMinus(cells, axis) ==
    [p \in Patches |->
        [idx \in {f \in Points(FaceBox(p, axis)) : Contains(ReconBox(p), f)} |->
            EdgeMinus(cells[p][idx], axis)]]

\* a reconstruction that stores Q_plus at the index of the iteration that writes it
Mutant_ReconQPlus(cells, axis) ==
    [p \in Patches |->
        [idx \in {f \in Points(FaceBox(p, axis)) : Contains(ReconBox(p), Shift(f, axis, 1))} |->
            EdgePlus(cells[p][idx], axis)]]

\* tmp_Q_plus_{axis} after the reconstruction kernel: the iteration at idx
\* writes entry idx - 1 (along the axis) when the face box contains it
ReconQPlus(cells, axis) ==
    [p \in Patches |->
        [idx \in {f \in Points(FaceBox(p, axis)) : Contains(ReconBox(p), Shift(f, axis, 1))} |->
            EdgePlus(cells[p][Shift(idx, axis, 1)], axis)]]

\* tmp_V{x,y,z} (nodal, 1 guard cell) after the reconstruction kernel
ReconV(cells, axis) ==
    [p \in Patches |->
        [idx \in {v \in Points(PatchBox(p, TheNodeVector, 1)) : Contains(ReconBox(p), v)} |->
            cells[p][idx].V[axis]]]

\* flux(Q_minus(f, comp), Q_plus(f, comp), V(f), V(f + 1)): the flux of
\* component comp through the face f of the axis, between nodes f and f + 1
FaceFlux(p, face, axis, comp) ==
    flux(tmp_Q_minus[axis][p][face][comp], tmp_Q_plus[axis][p][face][comp],
         tmp_V[axis][p][face], tmp_V[axis][p][Shift(face, axis, 1)])

\* an inflow that takes Q_plus from face i instead of face i-1
Mutant_F_minus(p, idx, axis, comp) ==
    flux(tmp_Q_minus[axis][p][Shift(idx, axis, -1)][comp], tmp_Q_plus[axis][p][idx][comp],
         tmp_V[axis][p][Shift(idx, axis, -1)], tmp_V[axis][p][idx])

\* F0_minusx .. F3_minusz of iteration idx: the flux through face i-1 of the axis
F_minus(p, idx, axis, comp) == FaceFlux(p, Shift(idx, axis, -1), axis, comp)

\* F0_plusx .. F3_plusz of iteration idx: the flux through face i of the axis
F_plus(p, idx, axis, comp) == FaceFlux(p, idx, axis, comp)

\* a flux kernel whose update stores the flux difference without the old value
Mutant_FluxCell(p, idx) ==
    LET cx == RDiv(geom.dt, geom.dx)
    IN  [comp \in 1 .. 4 |->
            RSub(RSub(- RMul(cx, RSub(F_plus(p, idx, 1, comp), F_minus(p, idx, 1, comp))),
                      RMul(cx, RSub(F_plus(p, idx, 2, comp), F_minus(p, idx, 2, comp)))),
                 RMul(cx, RSub(F_plus(p, idx, 3, comp), F_minus(p, idx, 3, comp))))]

\* a flux kernel that applies the flux differences twice
Mutant_FluxCellTwice(p, idx) ==
    LET cx == RDiv(geom.dt, geom.dx)
        Q  == <<N[p][idx], NU[1][p][idx], NU[2][p][idx], NU[3][p][idx]>>
    IN  [comp \in 1 .. 4 |->
            RSub(RSub(RSub(Q[comp],
                           2 * RMul(cx, RSub(F_plus(p, idx, 1, comp), F_minus(p, idx, 1, comp)))),
                      2 * RMul(cx, RSub(F_plus(p, idx, 2, comp), F_minus(p, idx, 2, comp)))),
                 2 * RMul(cx, RSub(F_plus(p, idx, 3, comp), F_minus(p, idx, 3, comp))))]

\* the new (N, NUx, NUy, NUz) one iteration (i, j, k) of the flux kernel assigns:
\* Q = Q - cx*(F_plusx - F_minusx) - cy*(F_plusy - F_minusy) - cz*(F_plusz - F_minusz)
FluxCell(p, idx) ==
    LET cx == RDiv(geom.dt, geom.dx)
        cy == RDiv(geom.dt, geom.dx)
        cz == RDiv(geom.dt, geom.dx)
        Q  == <<N[p][idx], NU[1][p][idx], NU[2][p][idx], NU[3][p][idx]>>
    IN  [comp \in 1 .. 4 |->
            RSub(RSub(RSub(Q[comp],
                           RMul(cx, RSub(F_plus(p, idx, 1, comp), F_minus(p, idx, 1, comp)))),
                      RMul(cy, RSub(F_plus(p, idx, 2, comp), F_minus(p, idx, 2, comp)))),
                 RMul(cz, RSub(F_plus(p, idx, 3, comp), F_minus(p, idx, 3, comp))))]

----------------------------------------------------------------------------
(* amrex::OwnerMask and the two deposition methods.  The operators take    *)
(* the BoxArray as an argument so that the same deposition can be          *)
(* evaluated on another decomposition of the same domain.                  *)

\* the periodic shifts of the domain: -1, 0 or +1 period per axis
PeriodicShifts ==
    LET nc == DomainCells(geom.ncx)
    IN  {<<sx * nc[1], sy * nc[2], sz * nc[3]>> : sx \in {-1, 0, 1}, sy \in {-1, 0, 1}, sz \in {-1, 0, 1}}

\* IntVect::operator< against the zero vector (z is the most significant axis)
BeforeZero(iv) ==
    \/ iv[3] < 0
    \/ iv[3] = 0 /\ iv[2] < 0
    \/ iv[3] = 0 /\ iv[2] = 0 /\ iv[1] < 0

\* owner_mask(i, j, k) of patch p: clear when a patch of lower index, or this
\* patch under a shift before zero, holds the same point of the periodic domain
IsOwner(ba, typ, p, idx) ==
    ~ \E q \in DOMAIN ba : \E iv \in PeriodicShifts :
          /\ Contains(BoxOf(ba, q, typ, 0), <<idx[1] + iv[1], idx[2] + iv[2], idx[3] + iv[3]>>)
          /\ (q < p \/ (q = p /\ BeforeZero(iv)))

\* amrex::OwnerMask(mf, period) for a MultiFab of type typ on BoxArray ba
OwnerMask(ba, typ) ==
    [p \in DOMAIN ba |-> [idx \in Points(BoxOf(ba, p, typ, 0)) |-> IsOwner(ba, typ, p, idx)]]

\* a deposition kernel that does not consult the owner mask
Mutant_UnmaskedDepositChargeKernel(ba, Nmf, rhomf) ==
    [p \in DOMAIN ba |->
        [idx \in DOMAIN rhomf[p] |-> RAdd(rhomf[p][idx], RMul(geom.q, Nmf[p][idx]))]]

\* a deposition kernel that stores instead of accumulating (rho_arr = q*N_arr)
Mutant_DepositChargeKernel(ba, Nmf, rhomf) ==
    [p \in DOMAIN ba |->
        [idx \in DOMAIN rhomf[p] |->
            IF IsOwner(ba, TheNodeVector, p, idx)
              THEN RMul(geom.q, Nmf[p][idx])
              ELSE rhomf[p][idx]]]

\* the deposition kernel of DepositCharge over every patch:
\* if ( owner_mask_rho_arr(i,j,k) ) rho_arr(i,j,k) += q*N_arr(i,j,k)
DepositChargeKernel(ba, Nmf, rhomf) ==
    LET owner_mask_rho == OwnerMask(ba, TheNodeVector)
    IN  [p \in DOMAIN ba |->
            [idx \in DOMAIN rhomf[p] |->
                IF Contains(BoxOf(ba, p, TheNodeVector, 0), idx) /\ owner_mask_rho[p][idx]
                  THEN RAdd(rhomf[p][idx], RMul(geom.q, Nmf[p][idx]))
                  ELSE rhomf[p][idx]]]

\* 1.0_prt / PhysConst::c / PhysConst::c
inv_clight_sq == RDiv(RDiv(ONE, clight), clight)

\* a nodal current without the Lorentz factor (q * NU)
Mutant_NodalCurrentCell(nn, nu) == [c \in Axes |-> RMul(geom.q, nu[c])]

\* tmp_j{x,y,z}_fluid_arr(i, j, k) of the first kernel of DepositCurrent
NodalCurrentCell(nn, nu) ==
    LET gamma == RDiv(RSqrt(RAdd(RMul(nn, nn),
                                 RMul(RAdd(RAdd(RMul(nu[1], nu[1]), RMul(nu[2], nu[2])),
                                           RMul(nu[3], nu[3])),
                                      inv_clight_sq))),
                      nn)
    IN  [c \in Axes |-> RMul(geom.q, RDiv(nu[c], gamma))]

\* tmp_jx_fluid, tmp_jy_fluid, tmp_jz_fluid (nodal, no guard cells) after the first kernel
NodalCurrent(ba, Nmf, NUmf) ==
    [c \in Axes |->
        [p \in DOMAIN ba |->
            [idx \in Points(BoxOf(ba, p, TheNodeVector, 0)) |->
                NodalCurrentCell(Nmf[p][idx], <<NUmf[1][p][idx], NUmf[2][p][idx], NUmf[3][p][idx]>>)[c]]]]

JName(c) == CASE c = 1 -> "jx" [] c = 2 -> "jy" [] c = 3 -> "jz"

\* the three kernels of the second loop of DepositCurrent, component c on its
\* own tile box with its own mask: if ( owner_mask_arr(i,j,k) ) j_arr(i,j,k) += j_tmp
InterpCurrentKernel(ba, tmpj, Jmf) ==
    [c \in Axes |->
        LET j_type == FieldType(JName(c))
            owner_mask == OwnerMask(ba, j_type)
        IN  [p \in DOMAIN ba |->
                [idx \in DOMAIN Jmf[c][p] |->
                    IF Contains(BoxOf(ba, p, j_type, 0), idx) /\ owner_mask[p][idx]
                      THEN RAdd(Jmf[c][p][idx],
                                Interp(LAMBDA src : tmpj[c][p][src],
                                       TheNodeVector, j_type, coarsening_ratio, idx))
                      ELSE Jmf[c][p][idx]]]]

----------------------------------------------------------------------------
(* The container as a state machine: one action per kernel launch and per  *)
(* group of boundary fills, in the order the methods make them.            *)

FluidFields == {"N", "NUx", "NUy", "NUz"}

NUName(c) == CASE c = 1 -> "NUx" [] c = 2 -> "NUy" [] c = 3 -> "NUz"

\* a momentum push that forgets the fill of NUz
Mutant_GatherAndPushFills == {"NUx", "NUy"}

\* the FillBoundary calls that end each method
InitDataFills == {"N", "NUx", "NUy", "NUz"}

GatherAndPushFills == {"NUx", "NUy", "NUz"}

AdvectivePushFills == {"N", "NUx", "NUy", "NUz"}

\* Evolve with the advection called before the momentum push
Mutant_EvolveCalls(skip_deposition) ==
    <<"AdvectivePush_Muscl", "GatherAndPush">>
        \o (IF ~ skip_deposition THEN <<"DepositCurrent">> ELSE <<>>)

\* Evolve that returns after the push when the deposition is skipped
Mutant_EvolveCallsSkipAdvection(skip_deposition) ==
    IF skip_deposition THEN <<"GatherAndPush">>
    ELSE <<"GatherAndPush", "AdvectivePush_Muscl", "DepositCurrent">>

\* the body of Evolve: the methods it calls, in order
EvolveCalls(skip_deposition) ==
    <<"GatherAndPush", "AdvectivePush_Muscl">>
        \o (IF ~ skip_deposition THEN <<"DepositCurrent">> ELSE <<>>)

\* the first step of each method
Entry(method) ==
    CASE method = "GatherAndPush"       -> "GatherAndPush.kernel"
      [] method = "AdvectivePush_Muscl" -> "AdvectivePush_Muscl.reconstruct"
      [] method = "DepositCurrent"      -> "DepositCurrent.nodal"
      [] method = "DepositCharge"       -> "DepositCharge.kernel"

\* nodes of the periodic domain, each once: the nodes their patch owns
OwnedNodes ==
    UNION {{<<p, idx>> : idx \in {i \in Points(ValidBox(p)) : IsOwner(geom.ba, TheNodeVector, p, i)}} :
              p \in Patches}

RECURSIVE SumOver(_, _)
SumOver(f, S) ==
    IF S = {} THEN 0
    ELSE LET x == CHOOSE y \in S : TRUE IN f[x[1]][x[2]] + SumOver(f, S \ {x})

\* the total of N over the domain
TotalN == SumOver(N, OwnedNodes)

\* charge and current left on the mesh by the other species
OtherSpecies(idx) == 7 * idx[1] + 11 * idx[2] + 13 * idx[3]

\* no HeapSort call is made on the container's behalf
SortOff ==
    /\ index_array = <<>> /\ bin_array = <<>> /\ index_in = <<>> /\ bin_in = <<>> /\ touched = {}
    /\ start = 0 /\ n = 0 /\ sort_i = 0 /\ sort_j = 0 /\ sort_pc = "off"

----------------------------------------------------------------------------
(* WarpXFluidContainer::WarpXFluidContainer and ReadParameters.            *)

\* the species names of the input file
SpeciesNames == {"electrons", "ions"}

\* the keys ReadParameters queries, in the order it queries them
FlagKeys == <<"do_not_deposit", "do_not_gather", "do_not_push">>

\* what the input file gives for a key: nothing, 1 or 0
FileValues == {"absent", "true", "false"}

\* the flags of a container before ReadParameters
DefaultFlags == [k \in {FlagKeys[q] : q \in 1 .. 3} |-> FALSE]

\* ParmParse::query(key, ref) under prefix: ref is assigned if the file
\* gives the key and left as it is otherwise
Query(prefix, key, ref) ==
    IF inputs[<<prefix, key>>] = "absent" THEN ref ELSE inputs[<<prefix, key>>] = "true"

\* ReadParameters with the guard a member of the container (always unset
\* in a container under construction) instead of a static local
Mutant_ReadParameters(species_name, init) ==
    [flags   |-> [k \in DOMAIN DefaultFlags |-> Query(species_name, k, DefaultFlags[k])],
     asked   |-> [q \in 1 .. 3 |-> <<species_name, FlagKeys[q]>>],
     initialized |-> init]

\* ReadParameters of a container named species_name, with the static
\* local at init: the flags it leaves, the queries it makes and the static
ReadParameters(species_name, init) ==
    IF ~init
        THEN [flags   |-> [k \in DOMAIN DefaultFlags |-> Query(species_name, k, DefaultFlags[k])],
              asked   |-> [q \in 1 .. 3 |-> <<species_name, FlagKeys[q]>>],
              initialized |-> TRUE]
        ELSE [flags |-> DefaultFlags, asked |-> <<>>, initialized |-> init]

\* an input file with no entry for any of the species named
EmptyInputs(names) == [key \in names \X {FlagKeys[q] : q \in 1 .. 3} |-> "absent"]

\* the members of a container when its constructor returns: ispecies and name
\* from the arguments, the flags as ReadParameters left them, one MultiFab
\* slot per level
NewContainer(nlevs_max, ispecies, name, read) ==
    [species_id |-> ispecies, species_name |-> name,
     do_not_deposit |-> read.flags["do_not_deposit"],
     do_not_gather |-> read.flags["do_not_gather"],
     do_not_push |-> read.flags["do_not_push"],
     levels |-> nlevs_max]

\* the containers, the queries and the static local of ReadParameters after
\* the containers names[1 .. k] have been constructed one after the other,
\* each on one level, in a process that had constructed none
RECURSIVE ConstructedUpTo(_, _)
ConstructedUpTo(names, k) ==
    IF k = 0 THEN [containers |-> <<>>, queries |-> <<>>, initialized |-> FALSE]
    ELSE LET before == ConstructedUpTo(names, k - 1)
             read   == ReadParameters(names[k], before.initialized)
         IN  [containers  |-> Append(before.containers, NewContainer(1, k - 1, names[k], read)),
              queries     |-> before.queries \o read.asked,
              initialized |-> read.initialized]

\* the process has constructed the containers of names, in that order, with
\* an input file that has no entry for them
CtorDone(names) ==
    /\ inputs = EmptyInputs({names[k] : k \in DOMAIN names})
    /\ initialized = ConstructedUpTo(names, Len(names)).initialized
    /\ containers = ConstructedUpTo(names, Len(names)).containers
    /\ queries = ConstructedUpTo(names, Len(names)).queries

----------------------------------------------------------------------------
(* The runs of one container.                                              *)

\* the runs: each decomposition and each injector profile on the staggered
\* (Yee) mesh, and the decomposed domain with a moving fluid on the collocated mesh
Configurations ==
    {cfg \in BoxArrays(MaxCells) \X Profiles \X {"nodal", "yee"} :
        cfg[3] = "yee" \/ (Len(cfg[1]) = 2 /\ cfg[2] = "shear")}

\* the container after its constructor and AllocateLevelMFs: the one
\* container of the process, "electrons"
Init ==
    /\ SortOff
    /\ CtorDone(<<"electrons">>)
    /\ geom \in {[ncx |-> MaxCells, ba |-> cfg[1], dx |-> ONE, problo |-> <<0, 0, 0>>,
                  dt |-> (3 * ONE) \div 10, q |-> -(2 * ONE), m |-> 4 * ONE,
                  profile |-> cfg[2], grid |-> cfg[3]] : cfg \in Configurations}
    /\ N = AllocateLevelMFs
    /\ NU = [c \in Axes |-> AllocateLevelMFs]
    /\ rho = [p \in Patches |-> [idx \in Points(ValidBox(p)) |-> OtherSpecies(idx)]]
    /\ J = [c \in Axes |->
              [p \in Patches |->
                  [idx \in Points(PatchBox(p, FieldType(JName(c)), 0)) |-> c * OtherSpecies(idx)]]]
    /\ tmp_V = <<>> /\ tmp_Q_minus = <<>> /\ tmp_Q_plus = <<>> /\ tmp_j = <<>> /\ locals = <<>>
    /\ pc = "constructed" /\ todo = <<>> /\ args = [method |-> "InitData"]
    /\ calls = <<>> /\ log = <<>> /\ wrote = {} /\ filled = {} /\ pre = <<>> /\ mass0 = 0

\* FillBoundary of every listed field
FillFields(names) ==
    /\ N' = IF "N" \in names THEN FillBoundary(N) ELSE N
    /\ NU' = [c \in Axes |-> IF NUName(c) \in names THEN FillBoundary(NU[c]) ELSE NU[c]]
    /\ filled' = filled \cup names

\* the running method returns: the call goes on with its next method or ends
Finish(method) ==
    /\ log' = log \o <<[ev |-> "end", m |-> method, wrote |-> wrote', filled |-> filled']>>
                  \o (IF todo # <<>> THEN <<[ev |-> "begin", m |-> Head(todo),
                                             wrote |-> {}, filled |-> {}]>> ELSE <<>>)
    /\ pc' = IF todo = <<>> THEN "idle" ELSE Entry(Head(todo))
    /\ todo' = IF todo = <<>> THEN <<>> ELSE Tail(todo)

Snapshot == [N |-> N, NU |-> NU, rho |-> rho, J |-> J]

\* a kernel launch over the valid box of every patch: the locals of each iteration
Launch(Bx(_), Cell(_, _)) == [p \in Patches |-> [idx \in Points(Bx(p)) |-> Cell(p, idx)]]

\* the kernel has run on every patch: no tile box is empty
Launched == \A p \in Patches : locals'[p] # <<>>

\* InitData, first loop: N_arr = n; NUx_arr = n * u.x * clight; ...
InitDataKernel ==
    /\ pc = "constructed"
    /\ locals' = Launch(ValidBox, LAMBDA p, idx : InitDataCell(idx))
    /\ Launched
    /\ N' = ParallelFor(N, ValidBox, LAMBDA p, idx : locals'[p][idx].nn)
    /\ NU' = [c \in Axes |->
                ParallelFor(NU[c], ValidBox,
                    LAMBDA p, idx : RMul(RMul(locals'[p][idx].nn, locals'[p][idx].u[c]), clight))]
    /\ wrote' = {"N", "NUx", "NUy", "NUz"}
    /\ filled' = {}
    /\ pc' = "InitData.fill"
    /\ UNCHANGED <<sortVars, ctorVars, geom, rho, J, tmp_V, tmp_Q_minus, tmp_Q_plus, tmp_j,
                   todo, args, calls, log, pre, mass0>>

\* InitData, the four FillBoundary calls
InitDataFill ==
    /\ pc = "InitData.fill"
    /\ FillFields(InitDataFills)
    /\ mass0' = SumOver(N', OwnedNodes)
    /\ locals' = <<>>
    /\ pc' = "idle"
    /\ UNCHANGED <<sortVars, ctorVars, geom, rho, J, tmp_V, tmp_Q_minus, tmp_Q_plus, tmp_j,
                   todo, args, calls, log, wrote, pre>>

\* a top-level call with arguments a whose body calls the methods of body in order
BeginCall(a, body) ==
    /\ pc = "idle"
    /\ Len(calls) < MaxCalls
    /\ args' = a
    /\ calls' = Append(calls, a)
    /\ pre' = Snapshot
    /\ log' = <<[ev |-> "begin", m |-> Head(body), wrote |-> {}, filled |-> {}]>>
    /\ pc' = Entry(Head(body))
    /\ todo' = Tail(body)
    /\ UNCHANGED <<sortVars, ctorVars, geom, meshVars, tmpVars, wrote, filled, mass0>>

\* Evolve(lev, Ex, Ey, Ez, Bx, By, Bz, jx, jy, jz, skip_deposition)
Evolve ==
    \E fields \in FieldSets, skip_deposition \in BOOLEAN :
        BeginCall([method |-> "Evolve", fields |-> fields, skip_deposition |-> skip_deposition],
                  EvolveCalls(skip_deposition))

\* AdvectivePush_Muscl(lev) called on its own
AdvectivePush_Muscl ==
    BeginCall([method |-> "AdvectivePush_Muscl", fields |-> "zero", skip_deposition |-> TRUE],
              <<"AdvectivePush_Muscl">>)

\* the index types of the MultiFab a caller passes as rho: nodal,
\* cell-centered, or nodal along y and z only
RhoTypes == {TheNodeVector, <<0, 0, 0>>, <<0, 1, 1>>}

\* rho.ixType(): the index type whose boxes the FABs of mf are allocated on
ixType(mf) ==
    CHOOSE typ \in {0, 1} \X {0, 1} \X {0, 1} :
        \A p \in Patches : DOMAIN mf[p] = Points(PatchBox(p, typ, 0))

\* IndexType::nodeCentered(): nodal along every axis
nodeCentered(typ) == \A l \in Axes : typ[l] = 1

\* DepositCharge(lev, rho): called on the mesh's nodal rho, or on a
\* MultiFab of another index type that holds other species' charge
DepositCharge ==
    \E typ \in RhoTypes :
        LET a == [method |-> "DepositCharge", fields |-> "zero", skip_deposition |-> TRUE]
        IN  IF nodeCentered(typ)
              THEN BeginCall(a, <<"DepositCharge">>)
              ELSE /\ pc = "idle"
                   /\ Len(calls) < MaxCalls
                   /\ rho' = [p \in Patches |->
                              [idx \in Points(PatchBox(p, typ, 0)) |-> OtherSpecies(idx)]]
                   /\ args' = a
                   /\ calls' = Append(calls, a)
                   /\ pre' = [Snapshot EXCEPT !.rho = rho']
                   /\ log' = <<[ev |-> "begin", m |-> "DepositCharge", wrote |-> {}, filled |-> {}]>>
                   /\ pc' = Entry("DepositCharge")
                   /\ todo' = <<>>
                   /\ UNCHANGED <<sortVars, ctorVars, geom, N, NU, J, tmpVars, wrote, filled, mass0>>

\* a push kernel that also stores into N_arr (N_arr = N_arr * tmp_Ux)
Mutant_GatherAndPushKernel ==
    /\ pc = "GatherAndPush.kernel"
    /\ locals' = Launch(ValidBox, GatherAndPushCell)
    /\ Launched
    /\ N' = ParallelFor(N, ValidBox, LAMBDA p, idx : RMul(N[p][idx], locals'[p][idx][1]))
    /\ NU' = [c \in Axes |->
                ParallelFor(NU[c], ValidBox, LAMBDA p, idx : RMul(N[p][idx], locals'[p][idx][c]))]
    /\ wrote' = {"NUx", "NUy", "NUz"}
    /\ filled' = {}
    /\ pc' = "GatherAndPush.fill"
    /\ UNCHANGED <<sortVars, ctorVars, geom, rho, J, tmp_V, tmp_Q_minus, tmp_Q_plus, tmp_j,
                   todo, args, calls, log, pre, mass0>>

\* GatherAndPush, the push kernel: NU_arr = N_arr * tmp_U
GatherAndPushKernel ==
    /\ pc = "GatherAndPush.kernel"
    /\ locals' = Launch(ValidBox, GatherAndPushCell)
    /\ Launched
    /\ NU' = [c \in Axes |->
                ParallelFor(NU[c], ValidBox, LAMBDA p, idx : RMul(N[p][idx], locals'[p][idx][c]))]
    /\ wrote' = {"NUx", "NUy", "NUz"}
    /\ filled' = {}
    /\ pc' = "GatherAndPush.fill"
    /\ UNCHANGED <<sortVars, ctorVars, geom, N, rho, J, tmp_V, tmp_Q_minus, tmp_Q_plus, tmp_j,
                   todo, args, calls, log, pre, mass0>>

\* GatherAndPush, the three FillBoundary calls
GatherAndPushFill ==
    /\ pc = "GatherAndPush.fill"
    /\ FillFields(GatherAndPushFills)
    /\ locals' = <<>>
    /\ UNCHANGED <<sortVars, ctorVars, geom, rho, J, tmp_V, tmp_Q_minus, tmp_Q_plus, tmp_j,
                   args, calls, wrote, pre, mass0>>
    /\ Finish("GatherAndPush")

\* AdvectivePush_Muscl, first loop: the temporaries are allocated and the
\* reconstruction kernel runs on the grown tile box
AdvectivePushReconstruct ==
    /\ pc = "AdvectivePush_Muscl.reconstruct"
    /\ locals' = Launch(ReconBox, ReconCell)
    /\ Launched
    /\ tmp_V' = [axis \in Axes |-> ReconV(locals', axis)]
    /\ tmp_Q_minus' = [axis \in Axes |-> ReconQMinus(locals', axis)]
    /\ tmp_Q_plus' = [axis \in Axes |-> ReconQPlus(locals', axis)]
    /\ wrote' = {}
    /\ filled' = {}
    /\ pc' = "AdvectivePush_Muscl.update"
    /\ UNCHANGED <<sortVars, ctorVars, geom, meshVars, tmp_j, todo, args, calls, log, pre, mass0>>

\* AdvectivePush_Muscl, second loop: fluxes and the update of N, NU on the tile box
AdvectivePushUpdate ==
    /\ pc = "AdvectivePush_Muscl.update"
    /\ locals' = Launch(ValidBox, FluxCell)
    /\ Launched
    /\ N' = ParallelFor(N, ValidBox, LAMBDA p, idx : locals'[p][idx][1])
    /\ NU' = [c \in Axes |-> ParallelFor(NU[c], ValidBox, LAMBDA p, idx : locals'[p][idx][c + 1])]
    /\ wrote' = {"N", "NUx", "NUy", "NUz"}
    /\ pc' = "AdvectivePush_Muscl.fill"
    /\ UNCHANGED <<sortVars, ctorVars, geom, rho, J, tmp_V, tmp_Q_minus, tmp_Q_plus, tmp_j,
                   todo, args, calls, log, filled, pre, mass0>>

\* AdvectivePush_Muscl, the four FillBoundary calls; the temporaries go out of scope
AdvectivePushFill ==
    /\ pc = "AdvectivePush_Muscl.fill"
    /\ FillFields(AdvectivePushFills)
    /\ locals' = <<>> /\ tmp_V' = <<>> /\ tmp_Q_minus' = <<>> /\ tmp_Q_plus' = <<>>
    /\ UNCHANGED <<sortVars, ctorVars, geom, rho, J, tmp_j, args, calls, wrote, pre, mass0>>
    /\ Finish("AdvectivePush_Muscl")

\* AMREX_ALWAYS_ASSERT fails: the process aborts inside the running method
Abort(method) ==
    /\ pc' = "aborted"
    /\ log' = Append(log, [ev |-> "abort", m |-> method, wrote |-> wrote', filled |-> filled'])
    /\ todo' = todo

\* DepositCharge with the assertion after the loop instead of before it
Mutant_DepositChargeLoop ==
    /\ pc = "DepositCharge.kernel"
    /\ rho' = DepositChargeKernel(geom.ba, N, rho)
    /\ wrote' = {}
    /\ filled' = {}
    /\ UNCHANGED <<sortVars, ctorVars, geom, N, NU, J, tmpVars, args, calls, pre, mass0>>
    /\ IF nodeCentered(ixType(rho)) THEN Finish("DepositCharge") ELSE Abort("DepositCharge")

\* DepositCharge: the assertion on rho's index type, then its one loop
DepositChargeLoop ==
    /\ pc = "DepositCharge.kernel"
    /\ IF nodeCentered(ixType(rho))
         THEN /\ rho' = DepositChargeKernel(geom.ba, N, rho)
              /\ wrote' = {}
              /\ filled' = {}
              /\ Finish("DepositCharge")
         ELSE /\ rho' = rho
              /\ wrote' = {}
              /\ filled' = {}
              /\ Abort("DepositCharge")
    /\ UNCHANGED <<sortVars, ctorVars, geom, N, NU, J, tmpVars, args, calls, pre, mass0>>

\* DepositCurrent, first loop: the nodal current
DepositCurrentNodal ==
    /\ pc = "DepositCurrent.nodal"
    /\ tmp_j' = NodalCurrent(geom.ba, N, NU)
    /\ wrote' = {}
    /\ filled' = {}
    /\ pc' = "DepositCurrent.interp"
    /\ UNCHANGED <<sortVars, ctorVars, geom, meshVars, tmp_V, tmp_Q_minus, tmp_Q_plus, locals,
                   todo, args, calls, log, pre, mass0>>

\* DepositCurrent, second loop: interpolation to the mesh and masked accumulation
DepositCurrentInterp ==
    /\ pc = "DepositCurrent.interp"
    /\ J' = InterpCurrentKernel(geom.ba, tmp_j, J)
    /\ tmp_j' = <<>>
    /\ UNCHANGED <<sortVars, ctorVars, geom, N, NU, rho, tmp_V, tmp_Q_minus, tmp_Q_plus, locals,
                   args, calls, wrote, filled, pre, mass0>>
    /\ Finish("DepositCurrent")

Next ==
    \/ InitDataKernel \/ InitDataFill
    \/ Evolve \/ AdvectivePush_Muscl \/ DepositCharge
    \/ GatherAndPushKernel \/ GatherAndPushFill
    \/ AdvectivePushReconstruct \/ AdvectivePushUpdate \/ AdvectivePushFill
    \/ DepositChargeLoop
    \/ DepositCurrentNodal \/ DepositCurrentInterp

Spec == Init /\ [][Next]_vars

----------------------------------------------------------------------------
(* Construction of fluid containers: WarpXFluidContainer::WarpXFluidContainer *)
(* and ReadParameters, over the life of the process.                         *)

\* most containers constructed in a run
MaxContainers == 3

\* most mesh levels (nlevs_max)
MaxLevels == 2

CtorInit ==
    /\ SortOff
    /\ FluidOff
    /\ inputs \in [SpeciesNames \X {FlagKeys[q] : q \in 1 .. 3} -> FileValues]
    /\ initialized = FALSE
    /\ containers = <<>>
    /\ queries = <<>>

\* WarpXFluidContainer(nlevs_max, ispecies, name)
Construct ==
    /\ Len(containers) < MaxContainers
    /\ \E name \in SpeciesNames : \E nlevs_max \in 1 .. MaxLevels :
          LET ispecies == Len(containers)
              read == ReadParameters(name, initialized)
          IN  /\ containers' = Append(containers, NewContainer(nlevs_max, ispecies, name, read))
              /\ queries' = queries \o read.asked
              /\ initialized' = read.initialized
    /\ UNCHANGED <<inputs, sortVars, fluidVars>>

CtorNext == Construct

SpecCtor == CtorInit /\ [][CtorNext]_vars

----------------------------------------------------------------------------
(* Properties of the container (checked under Spec).                       *)

\* the kernel launches and boundary fills each method consists of
StepsOf(method) ==
    CASE method = "GatherAndPush"       -> {"GatherAndPush.kernel", "GatherAndPush.fill"}
      [] method = "AdvectivePush_Muscl" -> {"AdvectivePush_Muscl.reconstruct",
                                            "AdvectivePush_Muscl.update",
                                            "AdvectivePush_Muscl.fill"}
      [] method = "DepositCurrent"      -> {"DepositCurrent.nodal", "DepositCurrent.interp"}
      [] method = "DepositCharge"       -> {"DepositCharge.kernel"}

\* C1: every Evolve call runs GatherAndPush, then AdvectivePush_Muscl, then
\* (unless skip_deposition) DepositCurrent: the begin/end events of the call
\* are a prefix of that sequence, so no stage starts before the previous one
\* has ended and none runs twice; the running step belongs to the stage begun
\* last; when the call has returned the sequence is complete (push and
\* advection exactly once, deposition last when it runs).
C1_EvolveStageOrder ==
    args.method = "Evolve" =>
        LET stages == IF args.skip_deposition
                        THEN <<"GatherAndPush", "AdvectivePush_Muscl">>
                        ELSE <<"GatherAndPush", "AdvectivePush_Muscl", "DepositCurrent">>
            expected == [k \in 1 .. 2 * Len(stages) |->
                            <<IF k % 2 = 1 THEN "begin" ELSE "end", stages[(k + 1) \div 2]>>]
        IN  /\ Len(log) <= Len(expected)
            /\ \A k \in 1 .. Len(log) : <<log[k].ev, log[k].m>> = expected[k]
            /\ pc = "idle" => Len(log) = Len(expected)
            /\ pc # "idle" => /\ log[Len(log)].ev = "begin"
                              /\ pc \in StepsOf(log[Len(log)].m)

\* an Evolve call with deposition has returned: six events, and the current changed
C1_Witness ==
    /\ args.method = "Evolve" /\ ~ args.skip_deposition
    /\ pc = "idle"
    /\ Len(log) = 6
    /\ J # pre.J

\* C2: GatherAndPush leaves N unchanged at every node, valid and ghost: while
\* and after the push of an Evolve call (its first stage) N is exactly the N
\* the call began with, and the push kernel wrote only NUx, NUy, NUz.
C2_PushPreservesN ==
    /\ (args.method = "Evolve" /\ pc \in {"GatherAndPush.fill", "AdvectivePush_Muscl.reconstruct"})
          => N = pre.N
    /\ pc = "GatherAndPush.fill" => wrote = {"NUx", "NUy", "NUz"}

\* the push of an Evolve call with nonzero fields has finished and changed
\* the momentum, valid and ghost nodes alike
C2_Witness ==
    /\ args.method = "Evolve" /\ args.fields = "EB"
    /\ pc = "AdvectivePush_Muscl.reconstruct"
    /\ \E p \in Patches : \E idx \in Points(FabBox(p)) :
          /\ ~ Contains(ValidBox(p), idx)
          /\ NU[1][p][idx] # pre.NU[1][p][idx]
    /\ \E p \in Patches : \E idx \in Points(ValidBox(p)) : NU[2][p][idx] # pre.NU[2][p][idx]

\* the calls made so far are advection steps only
AdvectionOnly == \A k \in 1 .. Len(calls) : calls[k].method = "AdvectivePush_Muscl"

----------------------------------------------------------------------------
(* Deposition on a decomposed domain against the same deposition on one    *)
(* patch.                                                                  *)

\* the decomposition into a single patch that covers the whole domain
SingleBA == << <<0, geom.ncx - 1>> >>

\* the points of the periodic domain
PhysPoints ==
    LET nc == DomainCells(geom.ncx)
    IN  (0 .. nc[1] - 1) \X (0 .. nc[2] - 1) \X (0 .. nc[3] - 1)

\* the point of the periodic domain an index stands for
Wrap(idx) ==
    LET nc == DomainCells(geom.ncx)
    IN  <<idx[1] % nc[1], idx[2] % nc[2], idx[3] % nc[3]>>

\* the entries <<patch, index>> of a MultiFab of type typ on ba that stand for point w
CopiesOf(ba, typ, w) ==
    UNION {{<<p, idx>> : idx \in {i \in Points(BoxOf(ba, p, typ, 0)) : Wrap(i) = w}} :
              p \in DOMAIN ba}

\* the moments mf of the decomposed domain, as input on the single patch
OnSingle(mf) ==
    [p \in DOMAIN SingleBA |->
        [idx \in Points(BoxOf(SingleBA, p, TheNodeVector, 0)) |->
            mf[CHOOSE q \in Patches : Contains(ValidBox(q), idx)][idx]]]

\* an empty destination of type typ on ba
ZeroOn(ba, typ) == [p \in DOMAIN ba |-> [idx \in Points(BoxOf(ba, p, typ, 0)) |-> 0]]

\* C4: no double counting. DepositCharge and DepositCurrent left in rho and in
\* jx, jy, jz what their kernels accumulate onto the values held before, and
\* for the same moments what those kernels add (their result on an empty
\* destination), summed over the entries that stand for one point of the
\* domain (a node shared by two patches has one entry per patch), is at every
\* point the total the same deposition adds from a single patch that covers
\* the whole domain.
C4_NoDoubleCounting ==
    /\ (pc = "idle" /\ args.method = "DepositCharge") =>
          LET added  == DepositChargeKernel(geom.ba, N, ZeroOn(geom.ba, TheNodeVector))
              single == DepositChargeKernel(SingleBA, OnSingle(N), ZeroOn(SingleBA, TheNodeVector))
          IN  /\ rho = DepositChargeKernel(geom.ba, N, pre.rho)
              /\ \A w \in PhysPoints :
                  SumOver(added, CopiesOf(geom.ba, TheNodeVector, w))
                      = SumOver(single, CopiesOf(SingleBA, TheNodeVector, w))
    /\ (pc = "idle" /\ args.method = "Evolve" /\ ~ args.skip_deposition) =>
          LET added  == InterpCurrentKernel(geom.ba, NodalCurrent(geom.ba, N, NU),
                            [c \in Axes |-> ZeroOn(geom.ba, FieldType(JName(c)))])
              single == InterpCurrentKernel(SingleBA,
                            NodalCurrent(SingleBA, OnSingle(N),
                                         [c \in Axes |-> OnSingle(NU[c])]),
                            [c \in Axes |-> ZeroOn(SingleBA, FieldType(JName(c)))])
          IN  /\ J = InterpCurrentKernel(geom.ba, NodalCurrent(geom.ba, N, NU), pre.J)
              /\ \A c \in Axes : \A w \in PhysPoints :
                  SumOver(added[c], CopiesOf(geom.ba, FieldType(JName(c)), w))
                      = SumOver(single[c], CopiesOf(SingleBA, FieldType(JName(c)), w))

\* a deposition from two patches has put charge on a node both patches hold,
\* through the entry of one patch only
C4_Witness ==
    /\ pc = "idle" /\ args.method = "DepositCharge"
    /\ Len(geom.ba) = 2
    /\ \E idx \in Points(ValidBox(1)) \cap Points(ValidBox(2)) :
          /\ rho[1][idx] # pre.rho[1][idx]
          /\ rho[2][idx] = pre.rho[2][idx]

----------------------------------------------------------------------------
(* Conservation of the total of N by the advection step.                   *)

\* the node of the periodic domain one step down the axis from the owned
\* node pt, as the entry <<patch, index>> of the patch that owns it
LowerNeighbour(pt, axis) ==
    CHOOSE o \in OwnedNodes : Wrap(o[2]) = Wrap(Shift(pt[2], axis, -1))

\* how far the N stored at <<p, idx>> by the update is from the unrounded
\* N_old - cx*(F_plus - F_minus) - cy*(...) - cz*(...) of the fluxes the
\* kernel read there, in units of 1/ONE^2: the rounding error of the update
UpdateError(p, idx) ==
    LET cx == RDiv(geom.dt, geom.dx)
        cy == RDiv(geom.dt, geom.dx)
        cz == RDiv(geom.dt, geom.dx)
    IN  ONE * (N[p][idx] - pre.N[p][idx])
            + cx * (F_plus(p, idx, 1, 1) - F_minus(p, idx, 1, 1))
            + cy * (F_plus(p, idx, 2, 1) - F_minus(p, idx, 2, 1))
            + cz * (F_plus(p, idx, 3, 1) - F_minus(p, idx, 3, 1))

\* the arithmetic operations of the update of N at one node: three
\* differences F_plus - F_minus, three products, three subtractions from N
UpdateOps == 9

\* C3 (as amended): on a periodic domain with uniform initial density and
\* zero initial net momentum flux across boundaries, the total of N summed
\* over all cells is unchanged, within floating-point tolerance, after any
\* number of advection-only steps (AdvectivePush_Muscl), because the flux
\* leaving a cell through a face is the same value as the flux entering its
\* neighbour through that face.  Here: (1) for every node of the domain and
\* every axis, the F_minus the update reads at the node is the very value
\* of the F_plus it reads at the node's lower neighbour, across patch
\* boundaries and the periodic boundary alike; (2) the update therefore
\* changes the total of N by exactly the sum of the rounding errors of the
\* nodes' updates, the flux terms cancelling in pairs; (3) after
\* advection-only steps the total is within tolerance of the initial total:
\* no further than one rounding unit for each arithmetic operation of the
\* updates made.
C3_MassConservedToRounding ==
    /\ pc \in {"AdvectivePush_Muscl.update", "AdvectivePush_Muscl.fill"} =>
          \A pt \in OwnedNodes : \A axis \in Axes :
              LET lower == LowerNeighbour(pt, axis)
              IN  F_minus(pt[1], pt[2], axis, 1) = F_plus(lower[1], lower[2], axis, 1)
    /\ pc = "AdvectivePush_Muscl.fill" =>
          ONE * (TotalN - SumOver(pre.N, OwnedNodes))
              = SumOver([p \in Patches |-> [idx \in Points(ValidBox(p)) |-> UpdateError(p, idx)]],
                        OwnedNodes)
    /\ (pc = "idle" /\ calls # <<>> /\ AdvectionOnly) =>
          Abs(TotalN - mass0) <= UpdateOps * Cardinality(OwnedNodes) * Len(calls)

\* C3 as stated: the total is exactly unchanged
C3_MassConservedExactly ==
    (pc = "idle" /\ calls # <<>> /\ AdvectionOnly) => TotalN = mass0

\* two advection-only steps have run from a uniform density and moved mass
\* between nodes, through faces between patches too: some node gained and
\* some node lost more than the rounding of its own updates, and the total
\* is off its initial value
C3_Witness ==
    /\ pc = "idle" /\ Len(calls) = 2 /\ AdvectionOnly
    /\ Len(geom.ba) = 2
    /\ mass0 = ONE * Cardinality(OwnedNodes)
    /\ TotalN # mass0
    /\ \E pt \in OwnedNodes : N[pt[1]][pt[2]] > ONE + UpdateOps * Len(calls)
    /\ \E pt \in OwnedNodes : N[pt[1]][pt[2]] < ONE - UpdateOps * Len(calls)

----------------------------------------------------------------------------
(* Charge deposition by several species.  A simulation holds one fluid     *)
(* container per species, each with its own charge and its own N, and has  *)
(* every container deposit onto the same rho (MultiFluidContainer::        *)
(* DepositCharge calls DepositCharge(lev, rho) of each).  geom.fluids      *)
(* lists the containers; geom.q and N are the charge and the density of    *)
(* the container whose DepositCharge runs.                                 *)

\* number of fluid species of the simulation
MaxSpecies == 3

\* plasma_injector->getCharge() of species s: -e, +e, +2e, ... (e = 1.602)
ChargeOf(s) == (IF s = 1 THEN -1 ELSE s - 1) * 1602

\* the mean densities a species may have
Densities == {ONE, (3 * ONE) \div 2}

\* the containers of a simulation: the charge and the mean density of each
FluidTables ==
    {[s \in 1 .. MaxSpecies |-> [q |-> ChargeOf(s), n |-> d[s]]] :
        d \in [1 .. MaxSpecies -> Densities]}

\* N[lev] of the container of species s: a density that varies from node to
\* node and from species to species, the same at every copy of a node
FluidN(s) ==
    [p \in Patches |->
        [idx \in Points(FabBox(p)) |->
            geom.fluids[s].n + s * (7 * Wrap(idx)[1] + 3 * Wrap(idx)[2] + Wrap(idx)[3])]]

\* the names of the fluid species, in the order their containers are constructed
FluidNames == <<"electrons", "ions", "protons", "positrons">>

\* the species whose containers have deposited so far
Deposited == {calls[k].species : k \in 1 .. Len(calls)}

\* the simulation before any species has deposited: the containers have been
\* constructed, rho holds the charge of the species that are not fluids
SpeciesInit ==
    /\ SortOff
    /\ CtorDone(SubSeq(FluidNames, 1, MaxSpecies))
    /\ geom \in {[ncx |-> MaxCells, ba |-> ba, dx |-> ONE, problo |-> <<0, 0, 0>>,
                  dt |-> (3 * ONE) \div 10, q |-> fl[1].q, m |-> 4 * ONE,
                  profile |-> "rest", grid |-> "yee", fluids |-> fl] :
                    ba \in BoxArrays(MaxCells), fl \in FluidTables}
    /\ N = FluidN(1)
    /\ NU = [c \in Axes |-> AllocateLevelMFs]
    /\ rho = [p \in Patches |-> [idx \in Points(ValidBox(p)) |-> OtherSpecies(idx)]]
    /\ J = [c \in Axes |->
              [p \in Patches |->
                  [idx \in Points(PatchBox(p, FieldType(JName(c)), 0)) |-> c * OtherSpecies(idx)]]]
    /\ tmp_V = <<>> /\ tmp_Q_minus = <<>> /\ tmp_Q_plus = <<>> /\ tmp_j = <<>> /\ locals = <<>>
    /\ pc = "idle" /\ todo = <<>> /\ args = [method |-> "InitData"]
    /\ calls = <<>> /\ log = <<>> /\ wrote = {} /\ filled = {} /\ pre = <<>> /\ mass0 = 0

\* DepositCharge(lev, rho) is called on the container of a species that has
\* not deposited yet, whichever the caller takes next
DepositChargeOf ==
    /\ pc = "idle"
    /\ \E s \in (1 .. MaxSpecies) \ Deposited :
          /\ geom' = [geom EXCEPT !.q = geom.fluids[s].q]
          /\ N' = FluidN(s)
          /\ args' = [method |-> "DepositCharge", fields |-> "zero", skip_deposition |-> TRUE,
                      species |-> s]
          /\ calls' = Append(calls, args')
          /\ pre' = [N |-> N', NU |-> NU, rho |-> rho, J |-> J]
    /\ log' = <<[ev |-> "begin", m |-> "DepositCharge", wrote |-> {}, filled |-> {}]>>
    /\ pc' = Entry("DepositCharge")
    /\ todo' = <<>>
    /\ UNCHANGED <<sortVars, ctorVars, NU, rho, J, tmpVars, wrote, filled, mass0>>

SpeciesNext == DepositChargeOf \/ DepositChargeLoop

SpecSpecies == SpeciesInit /\ [][SpeciesNext]_vars

\* q*N_arr(i,j,k) of the container of species s at entry idx of patch p
Contribution(s, p, idx) == RMul(geom.fluids[s].q, FluidN(s)[p][idx])

\* what the container of species s adds to rho at entry idx of patch p: its
\* contribution where the owner mask is set, nothing elsewhere
Masked(s, p, idx) ==
    IF IsOwner(geom.ba, TheNodeVector, p, idx) THEN Contribution(s, p, idx) ELSE 0

\* rho at entry idx of patch p after the containers of the species
\* order[1 .. k] have deposited one after the other onto the charge of the
\* other species: k rounded additions, in that order
RECURSIVE SumOfContributions(_, _, _, _)
SumOfContributions(order, k, p, idx) ==
    IF k = 0 THEN OtherSpecies(idx)
    ELSE IF IsOwner(geom.ba, TheNodeVector, p, idx)
           THEN RAdd(SumOfContributions(order, k - 1, p, idx), Contribution(order[k], p, idx))
           ELSE SumOfContributions(order, k - 1, p, idx)

\* the species in the order their containers deposited
CallOrder == [k \in 1 .. Len(calls) |-> calls[k].species]

\* the orders in which the containers of the species of S can deposit
OrdersOf(S) ==
    {order \in [1 .. Cardinality(S) -> S] : \A i, j \in 1 .. Cardinality(S) :
                                                order[i] = order[j] => i = j}

\* rho_old plus the contributions of the species of S, as a real number (in units)
RECURSIVE UnroundedSum(_, _, _)
UnroundedSum(S, p, idx) ==
    IF S = {} THEN OtherSpecies(idx)
    ELSE LET s == CHOOSE t \in S : TRUE
         IN  Masked(s, p, idx) + UnroundedSum(S \ {s}, p, idx)

\* the magnitudes of rho_old and of the contributions of the species of S, added up
RECURSIVE SumOfMagnitudes(_, _, _)
SumOfMagnitudes(S, p, idx) ==
    IF S = {} THEN Abs(OtherSpecies(idx))
    ELSE LET s == CHOOSE t \in S : TRUE
         IN  Abs(Masked(s, p, idx)) + SumOfMagnitudes(S \ {s}, p, idx)

\* C5: DepositCharge accumulates rather than overwrites. After one call, at
\* every valid node whose owner-mask entry is set rho = rho_old + q*N (the
\* product and the sum as the kernel computes them) with the charge and the
\* density of the container called, and at every node whose entry is clear
\* rho = rho_old; after it has been called for k species rho is the rho
\* before the first call with the k contributions added in the order of the
\* calls, and whatever that order it is the sum of rho_old and the k
\* contributions within the tolerance of k rounded additions: k times the
\* unit roundoff 2^-Precision times the sum of the magnitudes of the terms,
\* to first order (twice that is a bound).
C5_DepositChargeAccumulates ==
    (pc = "idle" /\ calls # <<>>) =>
        LET owner_mask == OwnerMask(geom.ba, TheNodeVector)
        IN  \A p \in Patches : \A idx \in Points(ValidBox(p)) :
                /\ rho[p][idx] = IF owner_mask[p][idx]
                                   THEN RAdd(pre.rho[p][idx], RMul(geom.q, N[p][idx]))
                                   ELSE pre.rho[p][idx]
                /\ geom.q = geom.fluids[args.species].q
                /\ N[p][idx] = FluidN(args.species)[p][idx]
                /\ rho[p][idx] = SumOfContributions(CallOrder, Len(calls), p, idx)
                /\ Threshold * Abs(rho[p][idx] - UnroundedSum(Deposited, p, idx))
                      <= 2 * Len(calls) * SumOfMagnitudes(Deposited, p, idx)

\* C5 as stated: after the calls for k species rho is rho_old plus the sum of
\* the k contributions in any order, so the order of the calls that were made
\* and every other order of the same species give the same rho.
C5_SumInAnyOrder ==
    (pc = "idle" /\ calls # <<>>) =>
        \A p \in Patches : \A idx \in Points(ValidBox(p)) :
            \A order \in OrdersOf(Deposited) :
                rho[p][idx] = SumOfContributions(order, Len(calls), p, idx)

\* every species has deposited, not in the order of the species list, onto a
\* rho that was not zero: at a node with its mask set the contributions are
\* nonzero and differ from species to species, rho is not the unrounded sum
\* and another order of the same calls leaves another rho there; a node with
\* its mask clear holds the charge it held before the first call
C5_Witness ==
    /\ pc = "idle" /\ Len(calls) = MaxSpecies
    /\ calls[1].species > calls[2].species
    /\ \E p \in Patches : \E idx \in Points(ValidBox(p)) :
          /\ IsOwner(geom.ba, TheNodeVector, p, idx)
          /\ OtherSpecies(idx) # 0
          /\ \A s, t \in 1 .. MaxSpecies :
                /\ Contribution(s, p, idx) # 0
                /\ s # t => Contribution(s, p, idx) # Contribution(t, p, idx)
          /\ rho[p][idx] # UnroundedSum(Deposited, p, idx)
          /\ \E order \in OrdersOf(Deposited) :
                rho[p][idx] # SumOfContributions(order, Len(calls), p, idx)
    /\ \E p \in Patches : \E idx \in Points(ValidBox(p)) :
          /\ ~ IsOwner(geom.ba, TheNodeVector, p, idx)
          /\ rho[p][idx] = OtherSpecies(idx)
          /\ OtherSpecies(idx) # 0

----------------------------------------------------------------------------
\* j = q*NU/gamma_eff with gamma_eff = sqrt(N^2 + |NU|^2/c^2)/N, component c at node idx
NodeCurrent(c, p, idx) ==
    LET nn        == N[p][idx]
        NU_sq     == RAdd(RAdd(RMul(NU[1][p][idx], NU[1][p][idx]),
                               RMul(NU[2][p][idx], NU[2][p][idx])),
                          RMul(NU[3][p][idx], NU[3][p][idx]))
        gamma_eff == RDiv(RSqrt(RAdd(RMul(nn, nn), RDiv(NU_sq, RMul(clight, clight)))), nn)
    IN  RMul(geom.q, RDiv(NU[c][p][idx], gamma_eff))

\* C6: DepositCurrent first forms the node-centered current
\* j = q*NU/gamma_eff, gamma_eff = sqrt(N^2 + |NU|^2/c^2)/N, at every valid
\* node; then each component jx, jy, jz receives, at exactly the indices of
\* its own box whose entry in its own owner mask is set, the value resampled
\* from that nodal current, added to what it held; the other indices keep
\* their value.
C6_DepositCurrent ==
    /\ pc = "DepositCurrent.interp" =>
          \A c \in Axes : \A p \in Patches :
              /\ DOMAIN tmp_j[c][p] = Points(ValidBox(p))
              /\ \A idx \in Points(ValidBox(p)) : tmp_j[c][p][idx] = NodeCurrent(c, p, idx)
    /\ (pc = "idle" /\ args.method = "Evolve" /\ ~ args.skip_deposition) =>
          \A c \in Axes : \A p \in Patches :
              LET j_type     == FieldType(JName(c))
                  owner_mask == OwnerMask(geom.ba, j_type)
              IN  /\ DOMAIN J[c][p] = Points(PatchBox(p, j_type, 0))
                  /\ \A idx \in Points(PatchBox(p, j_type, 0)) :
                        J[c][p][idx] =
                            IF owner_mask[p][idx]
                              THEN RAdd(pre.J[c][p][idx],
                                        Interp(LAMBDA src : NodeCurrent(c, p, src),
                                               TheNodeVector, j_type, coarsening_ratio, idx))
                              ELSE pre.J[c][p][idx]

\* a deposition onto a staggered mesh from a moving fluid: jx changed at an
\* index its mask owns and kept its value at an index its mask does not own
C6_Witness ==
    /\ pc = "idle" /\ args.method = "Evolve" /\ ~ args.skip_deposition
    /\ geom.grid = "yee" /\ geom.profile = "shear"
    /\ \E p \in Patches : \E idx \in Points(PatchBox(p, FieldType("jx"), 0)) :
          /\ IsOwner(geom.ba, FieldType("jx"), p, idx)
          /\ J[1][p][idx] # pre.J[1][p][idx]
    /\ \E p \in Patches : \E idx \in Points(PatchBox(p, FieldType("jy"), 0)) :
          /\ ~ IsOwner(geom.ba, FieldType("jy"), p, idx)
          /\ pre.J[2][p][idx] # 0
          /\ J[2][p][idx] = pre.J[2][p][idx]

----------------------------------------------------------------------------
\* N = 1 and U = (0, 0, 0) at every node, guard nodes included
UniformAtRest(s) ==
    \A p \in Patches : \A idx \in Points(FabBox(p)) :
        /\ s.N[p][idx] = ONE
        /\ \A c \in Axes : s.NU[c][p][idx] = 0

\* C7: uniform at-rest fixed point. An Evolve call with zero E and B that
\* starts from N = 1, U = 0 at every node of the periodic grid leaves N and NU
\* unchanged at every node, after the push and after the advection step.
C7_UniformAtRestFixedPoint ==
    (args.method = "Evolve" /\ args.fields = "zero" /\ UniformAtRest(pre)) =>
        /\ N = pre.N
        /\ NU = pre.NU

\* the advection step of such a call has just updated N and NU on two patches
C7_Witness ==
    /\ args.method = "Evolve" /\ args.fields = "zero" /\ UniformAtRest(pre)
    /\ pc = "AdvectivePush_Muscl.fill"
    /\ wrote = {"N", "NUx", "NUy", "NUz"}
    /\ Len(geom.ba) = 2

----------------------------------------------------------------------------
\* every guard node holds the value of the valid node it is the image of
GhostsCurrent ==
    /\ N = FillBoundary(N)
    /\ \A c \in Axes : NU[c] = FillBoundary(NU[c])

\* C9: every stage that writes fluid fields ends with a boundary fill of
\* exactly the fields it wrote: GatherAndPush returns with NUx, NUy, NUz
\* written and filled, AdvectivePush_Muscl and InitData with N, NUx, NUy, NUz
\* written and filled; whenever a stage starts (and between calls) every
\* guard node of N, NUx, NUy, NUz holds the value of its valid node, so no
\* stage reads a guard node an earlier stage left stale.
C9_BoundaryFills ==
    /\ \A k \in 1 .. Len(log) :
          log[k].ev = "end" =>
              /\ log[k].filled = log[k].wrote
              /\ log[k].m = "GatherAndPush" => log[k].filled = {"NUx", "NUy", "NUz"}
              /\ log[k].m = "AdvectivePush_Muscl" => log[k].filled = {"N", "NUx", "NUy", "NUz"}
    /\ (pc = "idle" /\ calls = <<>>) =>
          /\ wrote = {"N", "NUx", "NUy", "NUz"}
          /\ filled = wrote
    /\ pc \in {"idle", "GatherAndPush.kernel", "AdvectivePush_Muscl.reconstruct",
               "DepositCurrent.nodal", "DepositCharge.kernel"} => GhostsCurrent

\* the advection step of an Evolve call starts after a push that changed NUz
\* at a guard node
C9_Witness ==
    /\ args.method = "Evolve" /\ args.fields = "EB"
    /\ pc = "AdvectivePush_Muscl.reconstruct"
    /\ Len(log) = 3
    /\ \E p \in Patches : \E idx \in Points(FabBox(p)) :
          /\ ~ Contains(ValidBox(p), idx)
          /\ NU[3][p][idx] # pre.NU[3][p][idx]

----------------------------------------------------------------------------
\* C10: the reconstruction kernel runs on the valid box grown by 1 and reads
\* N and NU (at i-1, i, i+1 per axis) only at allocated nodes, within the halo
\* of width 2; and every temporary entry the flux kernel reads on the valid
\* box - Q_minus and Q_plus at the faces i-1 and i, V at i-1, i, i+1, per
\* axis - was written by the reconstruction kernel of the same patch.
C10_NoCommunication ==
    /\ \A p \in Patches : \A idx \in Points(ReconBox(p)) : \A axis \in Axes :
          \A d \in {-1, 0, 1} :
              /\ Contains(PatchBox(p, TheNodeVector, 1), idx)
              /\ Contains(FabBox(p), Shift(idx, axis, d))
              /\ Shift(idx, axis, d) \in DOMAIN N[p]
              /\ \A c \in Axes : Shift(idx, axis, d) \in DOMAIN NU[c][p]
    /\ pc = "AdvectivePush_Muscl.update" =>
          \A p \in Patches : \A idx \in Points(ValidBox(p)) : \A axis \in Axes :
              /\ \A face \in {Shift(idx, axis, -1), idx} :
                    /\ face \in DOMAIN tmp_Q_minus[axis][p]
                    /\ face \in DOMAIN tmp_Q_plus[axis][p]
              /\ \A d \in {-1, 0, 1} : Shift(idx, axis, d) \in DOMAIN tmp_V[axis][p]

\* the reconstruction has run on two patches of a moving fluid: the velocity
\* the flux kernel reads one node outside the valid box differs from the one
\* at the boundary node
C10_Witness ==
    /\ pc = "AdvectivePush_Muscl.update"
    /\ Len(geom.ba) = 2
    /\ \E p \in Patches : \E idx \in Points(ValidBox(p)) :
          /\ ~ Contains(ValidBox(p), Shift(idx, 1, 1))
          /\ Shift(idx, 1, 1) \in DOMAIN tmp_V[1][p]
          /\ tmp_V[1][p][Shift(idx, 1, 1)] # tmp_V[1][p][idx]

----------------------------------------------------------------------------
\* (dt/dx_axis) * (F_plus_axis - F_minus_axis) of moment comp at node idx
FluxDifference(p, idx, axis, comp) ==
    RMul(RDiv(geom.dt, geom.dx), RSub(F_plus(p, idx, axis, comp), F_minus(p, idx, axis, comp)))

\* the four moments of a snapshot s at node idx
MomentsOf(s, p, idx) == <<s.N[p][idx], s.NU[1][p][idx], s.NU[2][p][idx], s.NU[3][p][idx]>>

\* C11: the advection update is one explicit finite-volume step. When the
\* update kernel of an AdvectivePush_Muscl call has run, every valid node
\* holds, for each moment Q of (N, NUx, NUy, NUz),
\* Q_old - sum over axes of (dt/dx)*(F_plus - F_minus), Q_old being the value
\* the node held when the call began; the guard nodes still hold their old
\* values; the kernel ran once (the only step left is the boundary fill). In
\* an Evolve call the same holds for N, which the push before it left alone.
C11_FiniteVolumeUpdate ==
    pc = "AdvectivePush_Muscl.fill" =>
        /\ wrote = {"N", "NUx", "NUy", "NUz"}
        /\ \A p \in Patches : \A idx \in Points(FabBox(p)) :
              LET new == MomentsOf(Snapshot, p, idx)
                  old == MomentsOf(pre, p, idx)
                  moments == IF args.method = "AdvectivePush_Muscl" THEN 1 .. 4 ELSE {1}
              IN  \A comp \in moments :
                      new[comp] =
                          IF Contains(ValidBox(p), idx)
                            THEN RSub(RSub(RSub(old[comp], FluxDifference(p, idx, 1, comp)),
                                           FluxDifference(p, idx, 2, comp)),
                                      FluxDifference(p, idx, 3, comp))
                            ELSE old[comp]

\* the update kernel of an advection step on a moving fluid has changed the
\* density and the momentum of a valid node
C11_Witness ==
    /\ pc = "AdvectivePush_Muscl.fill" /\ args.method = "AdvectivePush_Muscl"
    /\ \E p \in Patches : \E idx \in Points(ValidBox(p)) :
          /\ N[p][idx] # pre.N[p][idx]
          /\ NU[1][p][idx] # pre.NU[1][p][idx]
          /\ FluxDifference(p, idx, 1, 1) # 0

----------------------------------------------------------------------------
\* the position of node idx: problo + index * dx
PositionOf(idx) == [l \in Axes |-> RAdd(geom.problo[l], Fl(idx[l] * geom.dx))]

\* C12: after InitData every valid node holds N = density(x, y, z) and
\* NU = N * bulkMomentum(x, y, z) * c at its position problo + index*dx; the
\* kernel made one iteration, with one evaluation of each injector, per valid
\* node of each patch; and on return the guard nodes of N, NUx, NUy, NUz hold
\* the values of the valid nodes they are the images of.
C12_InitData ==
    /\ (pc = "InitData.fill" \/ (pc = "idle" /\ calls = <<>>)) =>
          \A p \in Patches : \A idx \in Points(ValidBox(p)) :
              LET pos == PositionOf(idx)
                  n0  == getDensity(pos[1], pos[2], pos[3])
                  u   == getBulkMomentum(pos[1], pos[2], pos[3])
              IN  /\ N[p][idx] = n0
                  /\ \A c \in Axes : NU[c][p][idx] = RMul(RMul(n0, u[c]), clight)
    /\ pc = "InitData.fill" =>
          \A p \in Patches :
              /\ DOMAIN locals[p] = Points(ValidBox(p))
              /\ \A idx \in Points(ValidBox(p)) :
                    LET pos == PositionOf(idx)
                    IN  /\ locals[p][idx].nn = getDensity(pos[1], pos[2], pos[3])
                        /\ locals[p][idx].u = getBulkMomentum(pos[1], pos[2], pos[3])
    /\ (pc = "idle" /\ calls = <<>>) =>
          /\ filled = {"N", "NUx", "NUy", "NUz"}
          /\ \A p \in Patches : \A idx \in Points(FabBox(p)) :
                LET src == PeriodicSource(idx)
                IN  ~ Contains(ValidBox(p), idx) =>
                        /\ N[p][idx] = N[src[1]][src[2]]
                        /\ \A c \in Axes : NU[c][p][idx] = NU[c][src[1]][src[2]]

\* InitData has returned for a moving fluid: a valid node and a guard node
\* hold a nonzero momentum
C12_Witness ==
    /\ pc = "idle" /\ calls = <<>>
    /\ \E p \in Patches : \E idx \in Points(ValidBox(p)) : NU[2][p][idx] # 0
    /\ \E p \in Patches : \E idx \in Points(FabBox(p)) :
          /\ ~ Contains(ValidBox(p), idx)
          /\ NU[1][p][idx] > 0
          /\ N[p][idx] = ONE

----------------------------------------------------------------------------
\* the faces of the axis the flux kernel reads for the valid nodes of patch p
FacesRead(p, axis) ==
    UNION {{Shift(idx, axis, -1), idx} : idx \in Points(ValidBox(p))}

\* C13: face pairing. When the reconstruction has run, for every face f the
\* flux kernel reads (between nodes f and f+1 of the axis) the stored
\* Q_minus(f) is Q~ + slope/2 of node f, the stored Q_plus(f) is
\* Q~ - slope/2 of node f+1 (stored one index down), the flux through f is
\* flux(Q_minus(f), Q_plus(f), V(f), V(f+1)) with the velocities of those same
\* two nodes, and the F_plus of node i is the F_minus of node i+1.
C13_FacePairing ==
    pc = "AdvectivePush_Muscl.update" =>
        \A p \in Patches : \A axis \in Axes :
            /\ \A f \in FacesRead(p, axis) :
                  LET here == locals[p][f]
                      next == locals[p][Shift(f, axis, 1)]
                  IN  \A comp \in 1 .. 4 :
                          /\ tmp_Q_minus[axis][p][f][comp]
                                = RAdd(here.Q_tilde[comp], RDiv(here.dQ[axis][comp], 2 * ONE))
                          /\ tmp_Q_plus[axis][p][f][comp]
                                = RSub(next.Q_tilde[comp], RDiv(next.dQ[axis][comp], 2 * ONE))
                          /\ FaceFlux(p, f, axis, comp)
                                = flux(RAdd(here.Q_tilde[comp], RDiv(here.dQ[axis][comp], 2 * ONE)),
                                       RSub(next.Q_tilde[comp], RDiv(next.dQ[axis][comp], 2 * ONE)),
                                       here.V[axis], next.V[axis])
            /\ \A idx \in Points(ValidBox(p)) : \A comp \in 1 .. 4 :
                  /\ F_plus(p, idx, axis, comp) = FaceFlux(p, idx, axis, comp)
                  /\ F_minus(p, idx, axis, comp) = FaceFlux(p, Shift(idx, axis, -1), axis, comp)
                  /\ Contains(ValidBox(p), Shift(idx, axis, 1)) =>
                        F_plus(p, idx, axis, comp) = F_minus(p, Shift(idx, axis, 1), axis, comp)

\* the reconstruction has run on a moving fluid: at some face the two nodes
\* have different predicted states, a nonzero limited slope and a nonzero flux
C13_Witness ==
    /\ pc = "AdvectivePush_Muscl.update"
    /\ \E p \in Patches : \E f \in FacesRead(p, 1) :
          /\ locals[p][f].dQ[1][2] # 0
          /\ locals[p][f].Q_tilde[2] # locals[p][Shift(f, 1, 1)].Q_tilde[2]
          /\ tmp_Q_minus[1][p][f][2] # tmp_Q_plus[1][p][f][2]
          /\ FaceFlux(p, f, 1, 2) # 0

----------------------------------------------------------------------------
(* The array locations each kernel iteration reads and writes.  A location  *)
(* is <<array, component, index>> within the FABs of one patch.            *)

\* the ParallelFor launches of the container's methods
KernelStages == {"reconstruct", "update", "push", "charge", "current_nodal", "current_interp"}

\* the iterations <<component, index>> of a launch on patch p: one per index
\* of its box (the launch of the second loop of DepositCurrent has three boxes)
Iterations(stage, p) ==
    CASE stage = "reconstruct" -> {<<0, idx>> : idx \in Points(ReconBox(p))}
      [] stage = "current_interp" ->
            UNION {{<<c, idx>> : idx \in Points(PatchBox(p, FieldType(JName(c)), 0))} : c \in Axes}
      [] OTHER -> {<<0, idx>> : idx \in Points(ValidBox(p))}

\* (i-1, i, i+1) along each axis
Stencil(idx) == {Shift(idx, axis, d) : axis \in Axes, d \in {-1, 0, 1}}

\* N_arr, NUx_arr, NUy_arr, NUz_arr at the indices of S
FluidAt(S) == {<<"N", 0, i>> : i \in S} \cup {<<"NU", c, i>> : c \in Axes, i \in S}

\* the source points Interp averages for destination index ic
InterpPoints(sf, sc, cr, ic) ==
    LET np == [l \in Axes |-> IF cr[l] = 1 THEN 1 + Abs(sf[l] - sc[l]) ELSE 2 - sf[l]]
        idx_min == [l \in Axes |->
                      IF cr[l] = 1 THEN ic[l] - sc[l] * (1 - sf[l])
                      ELSE ic[l] * cr[l] + (cr[l] \div 2) * (1 - sc[l]) - (1 - sf[l])]
    IN  (idx_min[1] .. idx_min[1] + np[1] - 1) \X (idx_min[2] .. idx_min[2] + np[2] - 1)
            \X (idx_min[3] .. idx_min[3] + np[3] - 1)

\* the locations iteration it of the launch assigns: a deposition kernel
\* assigns only where the owner mask of its patch is set
Writes(stage, p, it) ==
    LET idx == it[2]
    IN  CASE stage = "reconstruct" ->
               {<<"V", axis, idx>> : axis \in Axes}
                 \cup {<<"Q_minus", axis, idx>> :
                          axis \in {a \in Axes : Contains(FaceBox(p, a), idx)}}
                 \cup {<<"Q_plus", axis, Shift(idx, axis, -1)>> :
                          axis \in {a \in Axes : Contains(FaceBox(p, a), Shift(idx, a, -1))}}
          [] stage = "update" -> FluidAt({idx})
          [] stage = "push" -> {<<"NU", c, idx>> : c \in Axes}
          [] stage = "charge" ->
               IF IsOwner(geom.ba, TheNodeVector, p, idx) THEN {<<"rho", 0, idx>>} ELSE {}
          [] stage = "current_nodal" -> {<<"tmp_j", c, idx>> : c \in Axes}
          [] stage = "current_interp" ->
               IF IsOwner(geom.ba, FieldType(JName(it[1])), p, idx)
                 THEN {<<"J", it[1], idx>>} ELSE {}

\* an update kernel that reads the moments of its neighbours in place
Mutant_Reads(stage, p, it) ==
    IF stage = "update" THEN FluidAt(Stencil(it[2])) ELSE FluidAt({it[2]})

\* the locations iteration it of the launch reads: a deposition kernel reads
\* the mask, and the entry it accumulates into only where the mask is set
Reads(stage, p, it) ==
    LET idx == it[2]
    IN  CASE stage = "reconstruct" -> FluidAt(Stencil(idx))
          [] stage = "update" ->
               FluidAt({idx})
                 \cup {<<"Q_minus", axis, f[axis]>> :
                          axis \in Axes, f \in {[a \in Axes |-> Shift(idx, a, d)] : d \in {-1, 0}}}
                 \cup {<<"Q_plus", axis, f[axis]>> :
                          axis \in Axes, f \in {[a \in Axes |-> Shift(idx, a, d)] : d \in {-1, 0}}}
                 \cup {<<"V", axis, Shift(idx, axis, d)>> : axis \in Axes, d \in {-1, 0, 1}}
          [] stage = "push" ->
               FluidAt({idx})
                 \cup UNION {{<<name, 0, src>> :
                                 src \in InterpPoints(FieldType(name), TheNodeVector,
                                                      coarsening_ratio, idx)} :
                                name \in {"Ex", "Ey", "Ez", "Bx", "By", "Bz"}}
          [] stage = "charge" ->
               {<<"owner_mask_rho", 0, idx>>}
                 \cup (IF IsOwner(geom.ba, TheNodeVector, p, idx)
                         THEN {<<"N", 0, idx>>, <<"rho", 0, idx>>} ELSE {})
          [] stage = "current_nodal" -> FluidAt({idx})
          [] stage = "current_interp" ->
               {<<"owner_mask", it[1], idx>>}
                 \cup (IF IsOwner(geom.ba, FieldType(JName(it[1])), p, idx)
                         THEN {<<"J", it[1], idx>>} ELSE {})
                 \cup {<<"tmp_j", it[1], src>> :
                          src \in InterpPoints(TheNodeVector, FieldType(JName(it[1])),
                                               coarsening_ratio, idx)}

\* every location the launch assigns on patch p
AllWrites(stage, p) == UNION {Writes(stage, p, it) : it \in Iterations(stage, p)}

\* the sum of k * count[k] for k in 0 .. top
RECURSIVE Weighted(_, _)
Weighted(count, top) == IF top = 0 THEN 0 ELSE top * count[top] + Weighted(count, top - 1)

\* the number of assignments the launch makes on patch p: an iteration makes
\* at most nine (three velocities, three lower and three upper edge values)
CountWrites(stage, p, its) ==
    LET made  == [it \in its |-> Cardinality(Writes(stage, p, it))]
        count == [k \in 0 .. 9 |-> Cardinality({it \in its : made[it] = k})]
    IN  Weighted(count, 9)

\* the launch a step of the container makes
StageOf(step) ==
    CASE step = "AdvectivePush_Muscl.reconstruct" -> "reconstruct"
      [] step = "AdvectivePush_Muscl.update" -> "update"
      [] step = "GatherAndPush.kernel" -> "push"
      [] step = "DepositCharge.kernel" -> "charge"
      [] step = "DepositCurrent.nodal" -> "current_nodal"
      [] step = "DepositCurrent.interp" -> "current_interp"

\* the t-th index of box b in the order of a loop over i, then j, then k
NthPoint(b, t) ==
    LET n1 == b.hi[1] - b.lo[1] + 1
        n2 == b.hi[2] - b.lo[2] + 1
    IN  <<b.lo[1] + (t % n1), b.lo[2] + ((t \div n1) % n2), b.lo[3] + (t \div (n1 * n2))>>

\* one iteration of the update kernel on the density array cur, in place
UpdateInPlace(cur, p, idx) ==
    [cur EXCEPT ![idx] = RSub(RSub(RSub(cur[idx], FluxDifference(p, idx, 1, 1)),
                                   FluxDifference(p, idx, 2, 1)),
                              FluxDifference(p, idx, 3, 1))]

\* count iterations of the update kernel run one after the other on cur,
\* from the t-th index of the tile box on, forwards (step 1) or backwards (-1)
RECURSIVE RunUpdate(_, _, _, _, _)
RunUpdate(cur, p, t, step, count) ==
    IF count = 0 THEN cur
    ELSE RunUpdate(UpdateInPlace(cur, p, NthPoint(ValidBox(p), t)), p, t + step, step, count - 1)

\* C14: in each kernel launch every location written is written by exactly
\* one iteration (the assignments of the launch number as many as the
\* locations assigned), and an iteration reads a location the launch writes
\* only if it writes that location itself; the temporaries hold exactly the
\* locations the launch before wrote; the update kernel run one
\* iteration at a time, in place, forwards or backwards over the tile box,
\* leaves the density the launch leaves; and a deposition changes rho and j
\* only at locations its launch assigns (the nodes the patch owns).
C14_IterationsIndependent ==
    /\ pc \in {"AdvectivePush_Muscl.reconstruct", "AdvectivePush_Muscl.update",
               "GatherAndPush.kernel", "DepositCharge.kernel",
               "DepositCurrent.nodal", "DepositCurrent.interp"} =>
          \A p \in Patches :
              LET stage   == StageOf(pc)
                  its     == Iterations(stage, p)
                  written == AllWrites(stage, p)
              IN  /\ CountWrites(stage, p, its) = Cardinality(written)
                  /\ \A it \in its :
                        Reads(stage, p, it) \cap written \subseteq Writes(stage, p, it)
    /\ pc = "AdvectivePush_Muscl.update" =>
          \A p \in Patches : \A axis \in Axes :
              LET written == AllWrites("reconstruct", p)
              IN  /\ DOMAIN tmp_V[axis][p]
                        = {idx \in Points(PatchBox(p, TheNodeVector, 1)) : <<"V", axis, idx>> \in written}
                  /\ DOMAIN tmp_Q_minus[axis][p]
                        = {f \in Points(FaceBox(p, axis)) : <<"Q_minus", axis, f>> \in written}
                  /\ DOMAIN tmp_Q_plus[axis][p]
                        = {f \in Points(FaceBox(p, axis)) : <<"Q_plus", axis, f>> \in written}
    /\ pc = "DepositCurrent.interp" =>
          \A p \in Patches : \A c \in Axes :
              DOMAIN tmp_j[c][p]
                  = {idx \in Points(ValidBox(p)) : <<"tmp_j", c, idx>> \in AllWrites("current_nodal", p)}
    /\ pc = "AdvectivePush_Muscl.fill" =>
          \A p \in Patches :
              LET count == Cardinality(Points(ValidBox(p)))
              IN  /\ N[p] = RunUpdate(pre.N[p], p, 0, 1, count)
                  /\ N[p] = RunUpdate(pre.N[p], p, count - 1, -1, count)
    /\ (pc = "idle" /\ calls # <<>> /\ args.method = "DepositCharge") =>
          \A p \in Patches : \A idx \in DOMAIN rho[p] :
              rho[p][idx] # pre.rho[p][idx] => <<"rho", 0, idx>> \in AllWrites("charge", p)
    /\ (pc = "idle" /\ calls # <<>> /\ args.method = "Evolve") =>
          \A p \in Patches : \A c \in Axes : \A idx \in DOMAIN J[c][p] :
              J[c][p][idx] # pre.J[c][p][idx]
                  => (~ args.skip_deposition /\ <<"J", c, idx>> \in AllWrites("current_interp", p))

\* the update kernel has run on two patches of a moving fluid and changed the
\* density at two neighbouring nodes of one patch
C14_Witness ==
    /\ pc = "AdvectivePush_Muscl.fill"
    /\ Len(geom.ba) = 2
    /\ \E p \in Patches : \E idx \in Points(ValidBox(p)) :
          /\ Contains(ValidBox(p), Shift(idx, 1, 1))
          /\ N[p][idx] # pre.N[p][idx]
          /\ N[p][Shift(idx, 1, 1)] # pre.N[p][Shift(idx, 1, 1)]

----------------------------------------------------------------------------
(* Properties of the construction of containers (checked under SpecCtor).  *)

\* the three flags of a container
FlagsOf(c) == <<c.do_not_deposit, c.do_not_gather, c.do_not_push>>

\* C15: over any sequence of constructions the three flags are queried
\* exactly once each, by the first container constructed and under its
\* species name, whose flags are what the file gives under that name (the
\* default where it gives nothing); every later container, of any species,
\* adds no query and has the default flags; the static is set from the
\* first construction on.
C15_ParametersReadOnce ==
    /\ initialized <=> containers # <<>>
    /\ containers = <<>> => queries = <<>>
    /\ containers # <<>> =>
          LET first == containers[1]
          IN  /\ queries = [q \in 1 .. 3 |-> <<first.species_name, FlagKeys[q]>>]
              /\ FlagsOf(first) = [q \in 1 .. 3 |->
                                     inputs[<<first.species_name, FlagKeys[q]>>] = "true"]
              /\ \A k \in 2 .. Len(containers) :
                    FlagsOf(containers[k]) = <<FALSE, FALSE, FALSE>>

\* a second container of another species, for which the file sets
\* do_not_push, has been constructed after a first whose flag the file set
C15_Witness ==
    /\ Len(containers) >= 2
    /\ containers[1].species_name # containers[2].species_name
    /\ containers[1].do_not_deposit
    /\ inputs[<<containers[2].species_name, "do_not_push">>] = "true"
    /\ ~containers[2].do_not_push
    /\ Len(queries) = 3

----------------------------------------------------------------------------
\* C16: DepositCharge tests rho's index type once, before its loop.  A call
\* on a rho that is not node-centered ends in the abort with every element
\* of rho (and of N, NU, j) as it was when the call began, nothing written
\* and no return; a call on a node-centered rho never aborts, and returns
\* with q*N deposited on rho.
C16_AssertBeforeDeposit ==
    /\ pc = "aborted" =>
          /\ args.method = "DepositCharge"
          /\ ~nodeCentered(ixType(rho))
          /\ rho = pre.rho /\ N = pre.N /\ NU = pre.NU /\ J = pre.J
          /\ log = <<[ev |-> "begin", m |-> "DepositCharge", wrote |-> {}, filled |-> {}],
                     [ev |-> "abort", m |-> "DepositCharge", wrote |-> {}, filled |-> {}]>>
    /\ (pc = "idle" /\ calls # <<>> /\ args.method = "DepositCharge") =>
          /\ nodeCentered(ixType(rho))
          /\ rho = DepositChargeKernel(geom.ba, N, pre.rho)
          /\ log[Len(log)].ev = "end"
    /\ (pc = "DepositCharge.kernel" /\ nodeCentered(ixType(rho))) => rho = pre.rho

\* a call on a cell-centered rho has aborted, after a call on the nodal rho
\* deposited charge
C16_Witness ==
    /\ pc = "aborted"
    /\ ixType(rho) = <<0, 0, 0>>
    /\ Len(calls) = 2
    /\ calls[1].method = "DepositCharge"
    /\ \E p \in Patches : \E idx \in Points(ValidBox(p)) :
          pre.N[p][idx] # 0 /\ IsOwner(geom.ba, TheNodeVector, p, idx)

----------------------------------------------------------------------------
(* Properties of HeapSort (checked under SpecSort).                        *)

\* the positions of the window index_array[start .. start+n)
Window == start .. (start + n - 1)

\* how many positions of the window of arr hold particle v
CountIn(arr, v) == Cardinality({p \in Window : arr[p] = v})

\* C17: at every step of HeapSort, and so on return, the window holds the
\* entries it held on entry, each as many times: the sort only permutes.
C17_HeapSortPermutes ==
    \A v \in Particles : CountIn(index_array, v) = CountIn(index_in, v)

\* a sort of four entries, two of them equal, has returned with the window
\* rearranged
C17_Witness ==
    /\ sort_pc = "done"
    /\ n = MaxN
    /\ index_array # index_in
    /\ \E v \in Particles : CountIn(index_in, v) = 2
    /\ \E v \in Particles : CountIn(index_in, v) = 0

----------------------------------------------------------------------------
\* C18: HeapSort reads and writes index_array only at positions of the
\* window [start, start+n); the entries outside the window and the whole of
\* bin_array are as on entry in every state; and a call with n = 0 or n = 1
\* touches nothing and changes nothing.
C18_HeapSortWindowOnly ==
    /\ touched \subseteq Window
    /\ \A p \in DOMAIN index_array \ Window : index_array[p] = index_in[p]
    /\ bin_array = bin_in
    /\ n <= 1 => touched = {} /\ index_array = index_in

\* a sort of a window that starts after position 0 has returned, having
\* touched every position of the window and rearranged it, with the entry
\* before the window different from the one the window began with
C18_Witness ==
    /\ sort_pc = "done"
    /\ start = 1
    /\ n >= 3
    /\ touched = Window
    /\ index_array # index_in
    /\ index_in[0] # index_in[1]

----------------------------------------------------------------------------
\* C19 (checked under SpecSortFair): HeapSort returns for every input.
\* Every pass of the sift-up loop lowers j, which stays at or above 0, and
\* every pass of the sift-down loop raises j, which ends the loop once it
\* reaches i; the outer loops count i up to n and down to 0.
C19_HeapSortTerminates ==
    /\ <>(sort_pc = "done")
    /\ [][(sort_pc = "sift_up" /\ sort_pc' = "sift_up") => (0 <= sort_j' /\ sort_j' < sort_j)]_vars
    /\ [][(sort_pc = "sift_down" /\ sort_pc' = "sift_down") =>
              (sort_j < sort_i /\ sort_j' > sort_j /\ sort_i' = sort_i)]_vars
    /\ [][(sort_pc = "sift_up" /\ sort_pc' = "heapify") => sort_i' = sort_i + 1]_vars
    /\ [][(sort_pc = "sift_down" /\ sort_pc' = "extract") =>
              (sort_j >= sort_i /\ sort_i' = sort_i - 1)]_vars

\* a sort of MaxN entries has returned after its sift-up loop moved an
\* entry and its sift-down loop ran past a pass that swapped nothing
C19_Witness ==
    /\ sort_pc = "done"
    /\ n = MaxN
    /\ index_array # index_in
    /\ \A p \in Window : bin_array[index_in[p]] = bin_array[index_in[start]] \/ p = start + 1
    /\ bin_array[index_in[start + 1]] > bin_array[index_in[start]]

----------------------------------------------------------------------------
(* The fluid an Evolve call leaves, computed from the fluid it began with.  *)

\* the update kernel's iteration (i, j, k) on patch p of the fluid MultiFabs
\* Nmf, NUmf with the edge values Q_minus, Q_plus and the velocities V
FluxCellOf(Nmf, NUmf, Q_minus, Q_plus, V, p, idx) ==
    LET c == RDiv(geom.dt, geom.dx)
        Q == <<Nmf[p][idx], NUmf[1][p][idx], NUmf[2][p][idx], NUmf[3][p][idx]>>
        F(face, axis, comp) ==
            flux(Q_minus[axis][p][face][comp], Q_plus[axis][p][face][comp],
                 V[axis][p][face], V[axis][p][Shift(face, axis, 1)])
    IN  [comp \in 1 .. 4 |->
            RSub(RSub(RSub(Q[comp],
                           RMul(c, RSub(F(idx, 1, comp), F(Shift(idx, 1, -1), 1, comp)))),
                      RMul(c, RSub(F(idx, 2, comp), F(Shift(idx, 2, -1), 2, comp)))),
                 RMul(c, RSub(F(idx, 3, comp), F(Shift(idx, 3, -1), 3, comp))))]

\* the launch ran on every patch, on a box that is not empty
Ran(mf) == mf # <<>> /\ \A p \in Patches : mf[p] # <<>>

\* C20: an Evolve call returns with N and NU equal to the push, its fills,
\* the advection and its fills applied to the N and NU the call began
\* with, in the fields it was given, whatever skip_deposition is; and with
\* skip_deposition set, jx, jy, jz (and rho) are as they were when the call began.
C20_SkipDepositionSameFluid ==
    (args.method = "Evolve" /\ pc = "idle" /\ calls # <<>>) =>
        LET pushed  == Launch(ValidBox, LAMBDA p, idx :
                           GatherAndPushCellOf(pre.N, pre.NU, args.fields, p, idx))
            NUmid   == [c \in Axes |->
                           FillBoundary(ParallelFor(pre.NU[c], ValidBox,
                               LAMBDA p, idx : RMul(pre.N[p][idx], pushed[p][idx][c])))]
            cells   == Launch(ReconBox, LAMBDA p, idx : ReconCellOf(pre.N, NUmid, p, idx))
            V       == [axis \in Axes |-> ReconV(cells, axis)]
            Q_minus == [axis \in Axes |-> ReconQMinus(cells, axis)]
            Q_plus  == [axis \in Axes |-> ReconQPlus(cells, axis)]
            updated == Launch(ValidBox, LAMBDA p, idx :
                           FluxCellOf(pre.N, NUmid, Q_minus, Q_plus, V, p, idx))
        IN  /\ Ran(pushed)
            /\ NUmid # <<>> /\ \A c \in Axes : Ran(NUmid[c])
            /\ Ran(cells)
            /\ V # <<>> /\ Q_minus # <<>> /\ Q_plus # <<>>
            /\ \A axis \in Axes : Ran(V[axis]) /\ Ran(Q_minus[axis]) /\ Ran(Q_plus[axis])
            /\ Ran(updated)
            /\ N = FillBoundary(ParallelFor(pre.N, ValidBox, LAMBDA p, idx : updated[p][idx][1]))
            /\ \A c \in Axes :
                  NU[c] = FillBoundary(ParallelFor(NUmid[c], ValidBox,
                                           LAMBDA p, idx : updated[p][idx][c + 1]))
            /\ args.skip_deposition => (J = pre.J /\ rho = pre.rho)

\* an Evolve call without deposition has returned: the push and the
\* advection changed NU and N, and the fluid carries a current that a
\* deposition would have added to jx
C20_Witness ==
    /\ args.method = "Evolve" /\ args.skip_deposition
    /\ pc = "idle"
    /\ calls # <<>>
    /\ N # pre.N
    /\ NU # pre.NU
    /\ J = pre.J
    /\ \E p \in Patches : \E idx \in Points(ValidBox(p)) :
          NodalCurrentCell(N[p][idx], <<NU[1][p][idx], NU[2][p][idx], NU[3][p][idx]>>)[1] # 0

----------------------------------------------------------------------------
\* C8: on return the window index_array[start .. start+n) is ordered by bin
\* number: bin_array[index_array[p]] <= bin_array[index_array[p+1]] for every
\* p with start <= p < start+n-1 (the ordering std::sort would produce).
C8_HeapSortSorted ==
    sort_pc = "done" =>
        \A p \in start .. (start + n - 2) :
            bin_array[index_array[p]] <= bin_array[index_array[p + 1]]

\* a call that had work to do: the window was out of order on entry and the
\* sift-down phase had to choose the right child (n >= 4)
C8_Witness ==
    /\ sort_pc = "done"
    /\ n >= 4
    /\ \E p \in start .. (start + n - 2) :
          bin_array[index_in[p]] > bin_array[index_in[p + 1]]
    /\ index_array # index_in

====
